---- MODULE Spec2Model ----
(***************************************************************************)
(* Request-dispatch core of @blank-utils/load-balancer: the three          *)
(* availability strategies failForward, asyncBlock and promiseAny          *)
(* (AvailabilityMethod.ts), with the body buffer and the forwarder          *)
(* (Forward.ts) and the response annotator (Headers.ts); handleRequest     *)
(* with the recovery function (LoadBalancer.ts, Recovery.ts); the geo      *)
(* selection of the candidates (GeoEndpoint.ts, GeoSteering.ts).           *)
(*                                                                         *)
(* One strategy run is modelled per behaviour.  The candidate list, the    *)
(* failover status set and the inbound request are chosen in Init; the     *)
(* network (body read, health probes, forwards) answers                    *)
(* nondeterministically.  Time is a clock of whole seconds.                *)
(***************************************************************************)
EXTENDS Integers, Sequences, FiniteSets, TLC

\* ---------------------------------------------------------------- bounds
NumOrigins == 2
MaxCandidates == 2
MaxNow == 1
MaxSlashes == 2
NumRequests == 2

\* ------------------------------------------------------------- constants
\* Effect.timeout("10 seconds") around the health race
RACE_TIMEOUT_SECONDS == 10

DEFAULT_FAILOVER_STATUSES == {502, 503, 504}

BODYLESS_METHODS == {"GET", "HEAD", "OPTIONS"}

\* ------------------------------------------------------------ input sets
Origins == 1..NumOrigins

\* HTTP statuses an origin may answer with
StatusCodes == {200, 500, 502}

\* failover status sets a caller may configure
FailoverSets == (SUBSET StatusCodes) \cup {DEFAULT_FAILOVER_STATUSES}

Methods == {"get", "POST"}

Strategies == {"fail-forward", "async-block", "promise-any"}

RECURSIVE SeqsUpTo(_, _)
SeqsUpTo(S, n) ==
    IF n = 0 THEN {<<>>}
    ELSE LET shorter == SeqsUpTo(S, n - 1)
         IN  shorter \cup {Append(s, x) : s \in {t \in shorter : Len(t) = n - 1}, x \in S}

CandidateLists == SeqsUpTo(Origins, MaxCandidates)

\* ----------------------------------------------------------------- state
VARIABLES
    strategy,          \* which availability method runs
    endpoints,         \* the candidate list handed to the strategy
    failoverStatuses,  \* failForward's third argument
    request,           \* [method, hasBody] of the inbound request
    pc,                \* position of the strategy's generator
    idx,               \* position in endpoints of the loop's current candidate
    tried,             \* const tried: Endpoint[]
    lastError,         \* let lastError: unknown
    bufferedBody,      \* const bufferedBody: BufferedBody
    bodyReads,         \* how often request.arrayBuffer() was called
    attempts,          \* every probe and forward started, in start order
    now,               \* Date.now(), in seconds
    startTime,         \* const startTime
    gatherTime,        \* const gatherTime (of the current iteration)
    raceStart,         \* when the health race was launched
    winner,            \* position of healthyEndpointResult.value, 0 if none
    outcome,           \* what the strategy returned or failed with
    recoveryFn,        \* options.recoveryFn is configured
    context,           \* handleRequest's triedEndpoints and lastError closure variables
    hook,              \* the calls of recoveryFn: how many, with what context, returning what
    result,            \* what handleRequest returned or failed with
    options,           \* LoadBalancerOptions: endpoints, geoEndpoints, steering, availability
    cf,                \* request.cf, the Cloudflare geo properties of the request
    matched,           \* selectGeoEndpoints' const matched
    selected,          \* the list selectGeoEndpoints / getEndpointsToTry returned
    origin,            \* an Endpoint: url, healthCheckPath, timeoutMs
    derived,           \* what the Endpoint's getters and getHealthCheckTimeout returned
    response,          \* the Response handed to addLoadBalancerHeaders
    annotated,         \* the Response addLoadBalancerHeaders returned
    calls              \* the handleRequest invocations in progress on one LoadBalancer

vars == <<strategy, endpoints, failoverStatuses, request, pc, idx, tried,
          lastError, bufferedBody, bodyReads, attempts, now, startTime,
          gatherTime, raceStart, winner, outcome, recoveryFn, context, hook,
          result, options, cf, matched, selected, origin, derived, response,
          annotated, calls>>

\* the variables of handleRequest, which a strategy never touches
dispatchVars ==
    <<recoveryFn, context, hook, result, options, cf, matched, selected,
      origin, derived, response, annotated, calls>>

\* the arguments and results of the functions called on their own
callVars == <<origin, derived, response, annotated, calls>>

\* the configuration and the endpoint selection, fixed while a request is served
configVars ==
    <<options, cf, matched, selected, origin, derived, response, annotated, calls>>

\* ---------------------------------------------------------------- errors
NoError == [kind |-> "undefined", idx |-> 0, status |-> 0]

\* RequestForwardError raised by bufferRequestBody
BufferError == [kind |-> "RequestForwardError(body)", idx |-> 0, status |-> 0]

\* RequestForwardError raised by forwardRequest for the candidate at position i
TransportError(i) == [kind |-> "RequestForwardError", idx |-> i, status |-> 0]

\* new Error(`Endpoint returned status ${response.status}`)
BadStatusError(s) == [kind |-> "Error(status)", idx |-> 0, status |-> s]

\* EndpointUnhealthyError raised by checker.check for the candidate at position i
UnhealthyError(i) == [kind |-> "EndpointUnhealthyError", idx |-> i, status |-> 0]

\* -------------------------------------------------------------- Forward.ts
ToUpperCase(m) ==
    CASE m \in {"get", "Get", "gEt"} -> "GET"
      [] m \in {"head", "Head"} -> "HEAD"
      [] m \in {"options", "Options", "OPTIONs"} -> "OPTIONS"
      [] m \in {"post", "Post"} -> "POST"
      [] m = "put" -> "PUT"
      [] m = "patch" -> "PATCH"
      [] m = "delete" -> "DELETE"
      [] OTHER -> m

\* mutant: the method is compared as written, without toUpperCase()
methodSupportsBodyCaseSensitive(method) == method \notin BODYLESS_METHODS

methodSupportsBody(method) == ToUpperCase(method) \notin BODYLESS_METHODS

\* the body forwardRequest hands to fetch
ForwardBody(method, buffered) ==
    IF methodSupportsBody(method) THEN buffered ELSE "null"

\* ------------------------------------------------------------- Headers.ts
NoHeaders ==
    [endpoint |-> 0, latency |-> 0, gatherLatency |-> 0,
     hasTried |-> FALSE, triedCount |-> 0, triedEndpoints |-> <<>>]

addLoadBalancerHeaders(status, endpoint, triedEndpoints, start, gather) ==
    [type |-> "response",
     status |-> status,
     headers |->
        [endpoint |-> endpoint,
         latency |-> now - start,
         gatherLatency |-> gather - start,
         hasTried |-> Len(triedEndpoints) > 1,
         triedCount |-> IF Len(triedEndpoints) > 1 THEN Len(triedEndpoints) ELSE 0,
         triedEndpoints |-> IF Len(triedEndpoints) > 1 THEN triedEndpoints ELSE <<>>],
     triedArg |-> triedEndpoints,
     triedEndpoints |-> <<>>,
     lastError |-> NoError]

\* mutant: the underlying failure itself leaves the strategy
FailureAsOutcome(triedEndpoints, err) ==
    [type |-> IF err = NoError THEN "NoHealthyEndpointsError" ELSE err.kind,
     status |-> 0,
     headers |-> NoHeaders,
     triedArg |-> <<>>,
     triedEndpoints |-> triedEndpoints,
     lastError |-> err]

NoHealthyEndpointsError(triedEndpoints, err) ==
    [type |-> "NoHealthyEndpointsError",
     status |-> 0,
     headers |-> NoHeaders,
     triedArg |-> <<>>,
     triedEndpoints |-> triedEndpoints,
     lastError |-> err]

NoOutcome ==
    [type |-> "none", status |-> 0, headers |-> NoHeaders, triedArg |-> <<>>,
     triedEndpoints |-> <<>>, lastError |-> NoError]

\* ------------------------------------------------- options and request.cf
\* request.cf is undefined
NoCf ==
    [defined |-> FALSE, continent |-> "undefined", country |-> "undefined",
     regionCode |-> "undefined", colo |-> "undefined"]

\* options.geoEndpoints is undefined
NoGeoEndpoints == [defined |-> FALSE, list |-> <<>>]

\* options.steering is undefined
NoSteering == [type |-> "undefined", defaultEndpoints |-> <<>>]

\* options.availability is undefined
NoAvailability == [type |-> "undefined", hasStatuses |-> FALSE, failoverOnStatuses |-> {}]

\* a LoadBalancerOptions with nothing configured
NoOptions ==
    [endpoints |-> <<>>, geoEndpoints |-> NoGeoEndpoints, steering |-> NoSteering,
     availability |-> NoAvailability]

\* no Endpoint, getter result, Response or invocation is involved
NoEndpoint == [url |-> <<>>, healthCheckPath |-> <<>>, timeoutMs |-> 0]

NoDerived ==
    [done |-> {}, normalizedUrl |-> <<>>, renormalizedUrl |-> <<>>, healthCheckUrl |-> <<>>,
     targetUrl |-> <<>>, pathname |-> <<>>, search |-> <<>>, healthCheckTimeout |-> 0]

NoResponse == [status |-> 0, statusText |-> "", headers |-> <<>>]

NoCalls == <<>>

\* ------------------------------------------------------- attempt records
Probe(i) == [kind |-> "probe", idx |-> i, state |-> "pending", status |-> 0, body |-> "null"]

\* mutant: the inbound stream is handed to fetch and is used up by the
\* first attempt
ForwardConsumesStream(i) ==
    [kind |-> "forward", idx |-> i, state |-> "pending", status |-> 0,
     body |-> IF \E k \in DOMAIN attempts : attempts[k].kind = "forward"
              THEN "consumed"
              ELSE ForwardBody(request.method, bufferedBody)]

Forward(i) ==
    [kind |-> "forward", idx |-> i, state |-> "pending", status |-> 0,
     body |-> ForwardBody(request.method, bufferedBody)]

Pending == {k \in DOMAIN attempts : attempts[k].state = "pending"}

Settle(k, state, status) ==
    [attempts EXCEPT ![k] = [@ EXCEPT !.state = state, !.status = status]]

\* ------------------------------------------------------------ Recovery.ts
\* let triedEndpoints: Endpoint[] = [] ; let lastError: unknown
NoContext == [triedEndpoints |-> <<>>, lastError |-> NoError]

\* recoveryFn has not been called
NoHook == [calls |-> 0, context |-> NoContext, returned |-> "none"]

\* ----------------------------------------------------------------- Init
\* a strategy called directly, as the strategy tests do
Init ==
    /\ strategy \in Strategies
    /\ endpoints \in CandidateLists
    /\ failoverStatuses \in FailoverSets
    /\ strategy # "fail-forward" => failoverStatuses = DEFAULT_FAILOVER_STATUSES
    /\ request \in [method : Methods, hasBody : BOOLEAN]
    /\ pc = "start"
    /\ idx = 1
    /\ tried = <<>>
    /\ lastError = NoError
    /\ bufferedBody = "null"
    /\ bodyReads = 0
    /\ attempts = <<>>
    /\ now = 0
    /\ startTime = 0
    /\ gatherTime = 0
    /\ raceStart = 0
    /\ winner = 0
    /\ outcome = NoOutcome
    /\ recoveryFn = FALSE
    /\ context = NoContext
    /\ hook = NoHook
    /\ result = NoOutcome
    /\ options = NoOptions
    /\ cf = NoCf
    /\ matched = <<>>
    /\ selected = <<>>
    /\ origin = NoEndpoint
    /\ derived = NoDerived
    /\ response = NoResponse
    /\ annotated = NoResponse
    /\ calls = NoCalls


\* -------------------------------------------------- decisions of the code
\* mutant: fail over on every 5xx, whatever the configured set
ShouldFailoverAny5xx(status, statuses) == status >= 500

\* failoverStatuses.includes(response.status)
ShouldFailover(status, statuses) == status \in statuses

\* mutant: the loop skips every other candidate
NextCandidateSkips(i) == i + 2

\* for (const endpoint of endpoints): the position visited after position i
NextCandidate(i) == i + 1

\* mutant: the tried list keeps only the current candidate
PushTriedOnlyCurrent(list, endpoint) == <<endpoint>>

\* tried.push(endpoint)
PushTried(list, endpoint) == Append(list, endpoint)

\* mutant: the probe's verdict is ignored
HealthGateOpen(probeState) == TRUE

\* healthResult._tag === "Right"
HealthGate(probeState) == probeState = "healthy"

\* mutant: a racer completes with its endpoint whatever the probe said
ProbeWinsAlways(probeState) == TRUE

\* checker.check(endpoint).pipe(Effect.map(() => endpoint),
\*                              Effect.catchAll(() => Effect.never)):
\* a racer completes, and so wins the race, only when its probe is healthy
ProbeWins(probeState) == probeState = "healthy"

\* mutant: failures are left in the race, which fails once all racers failed
RaceFailsWhenAllFailed(atts) ==
    \A k \in DOMAIN atts : atts[k].state = "unhealthy"

\* Effect.raceAll fails once every racer has failed; a racer whose probe
\* failed became Effect.never and never fails, so the race itself never fails
RaceFails(atts) == FALSE

\* Effect.timeout("10 seconds")
\* mutant: the race has no ceiling
RaceNeverTimesOut(elapsed) == FALSE

RaceTimedOut(elapsed) == elapsed >= RACE_TIMEOUT_SECONDS

\* mutant: only the candidates whose probe answered are reported
TimeoutTriedResponded(eps) ==
    LET F[k \in 0..Len(eps)] ==
            IF k = 0 THEN <<>>
            ELSE IF attempts[k].state = "unhealthy" THEN Append(F[k - 1], eps[k])
            ELSE F[k - 1]
    IN  F[Len(eps)]

\* triedEndpoints: [...endpoints] when the race yields None
TimeoutTried(eps) == eps

\* mutant: only the winner is reported (the code before its "FIX #3")
ForwardFailTriedWinner(eps, w) == <<eps[w]>>

\* triedEndpoints: [...endpoints] in the mapError of the winner's forward
ForwardFailTried(eps, w) == eps

\* mutant: every candidate is passed to addLoadBalancerHeaders on success
SuccessTriedAll(eps, w) == eps

\* the [endpoint] passed to addLoadBalancerHeaders on success
SuccessTried(eps, w) == <<eps[w]>>

\* what fetch may do with a forwarded request
ForwardResults ==
    {[ok |-> TRUE, status |-> s] : s \in StatusCodes} \cup {[ok |-> FALSE, status |-> 0]}

\* ------------------------------------------------------ bufferRequestBody
\* the synchronous part: null without a read for bodyless methods and for a
\* request without a body, otherwise request.arrayBuffer() is started
bufferRequestBody(nextPc) ==
    IF ~methodSupportsBody(request.method) \/ ~request.hasBody
    THEN /\ pc' = nextPc
         /\ UNCHANGED bodyReads
    ELSE /\ pc' = "reading"
         /\ bodyReads' = bodyReads + 1

AfterBuffer == IF strategy = "promise-any" THEN "race" ELSE "loop"

\* mutant: a failed body read ends the run
BodyReadAborts ==
    /\ UNCHANGED dispatchVars
    /\ pc = "reading"
    /\ \E ok \in BOOLEAN :
        /\ bufferedBody' = IF ok THEN "payload" ELSE "null"
        /\ lastError' = IF ~ok /\ strategy # "promise-any" THEN BufferError ELSE lastError
        /\ pc' = IF ok THEN AfterBuffer ELSE "done"
        /\ outcome' = IF ok THEN outcome ELSE NoHealthyEndpointsError(<<>>, BufferError)
    /\ UNCHANGED <<strategy, endpoints, failoverStatuses, request, idx, tried,
                   bodyReads, attempts, now, startTime, gatherTime, raceStart,
                   winner>>

\* mutant: no strategy records a failed body read
BodyReadDropsError ==
    /\ UNCHANGED dispatchVars
    /\ pc = "reading"
    /\ \E ok \in BOOLEAN :
        bufferedBody' = IF ok THEN "payload" ELSE "null"
    /\ pc' = AfterBuffer
    /\ UNCHANGED <<strategy, endpoints, failoverStatuses, request, idx, tried,
                   lastError, bodyReads, attempts, now, startTime, gatherTime,
                   raceStart, winner, outcome>>

\* request.arrayBuffer() settles; failForward and asyncBlock record a failure
\* in lastError, promiseAny drops it
BodyRead ==
    /\ UNCHANGED dispatchVars
    /\ pc = "reading"
    /\ \E ok \in BOOLEAN :
        /\ bufferedBody' = IF ok THEN "payload" ELSE "null"
        /\ lastError' = IF ~ok /\ strategy # "promise-any" THEN BufferError ELSE lastError
    /\ pc' = AfterBuffer
    /\ UNCHANGED <<strategy, endpoints, failoverStatuses, request, idx, tried,
                   bodyReads, attempts, now, startTime, gatherTime, raceStart,
                   winner, outcome>>

\* ------------------------------------------------------------ failForward
FailForwardStart ==
    /\ UNCHANGED dispatchVars
    /\ pc = "start"
    /\ strategy = "fail-forward"
    /\ startTime' = now
    /\ bufferRequestBody(AfterBuffer)
    /\ UNCHANGED <<strategy, endpoints, failoverStatuses, request, idx, tried,
                   lastError, bufferedBody, attempts, now, gatherTime,
                   raceStart, winner, outcome>>

\* head of the for loop: leave it after the last candidate, else push the
\* candidate, take gatherTime and start the forward
FailForwardNext ==
    /\ UNCHANGED dispatchVars
    /\ pc = "loop"
    /\ strategy = "fail-forward"
    /\ IF idx > Len(endpoints)
       THEN /\ outcome' = NoHealthyEndpointsError(tried, lastError)
            /\ pc' = "done"
            /\ UNCHANGED <<tried, gatherTime, attempts>>
       ELSE /\ tried' = PushTried(tried, endpoints[idx])
            /\ gatherTime' = now
            /\ attempts' = Append(attempts, Forward(idx))
            /\ pc' = "forwarding"
            /\ UNCHANGED outcome
    /\ UNCHANGED <<strategy, endpoints, failoverStatuses, request, idx,
                   lastError, bufferedBody, bodyReads, now, startTime,
                   raceStart, winner>>

\* the forward of the current candidate settles
FailForwardSettled ==
    /\ UNCHANGED dispatchVars
    /\ pc = "forwarding"
    /\ strategy = "fail-forward"
    /\ \E res \in ForwardResults :
        /\ attempts' = Settle(Len(attempts), IF res.ok THEN "ok" ELSE "error", res.status)
        /\ IF res.ok /\ ~ShouldFailover(res.status, failoverStatuses)
           THEN /\ outcome' = addLoadBalancerHeaders(res.status, endpoints[idx], tried,
                                                     startTime, gatherTime)
                /\ pc' = "done"
                /\ UNCHANGED <<idx, lastError>>
           ELSE /\ lastError' = IF res.ok THEN BadStatusError(res.status)
                                ELSE TransportError(idx)
                /\ idx' = NextCandidate(idx)
                /\ pc' = "loop"
                /\ UNCHANGED outcome
    /\ UNCHANGED <<strategy, endpoints, failoverStatuses, request, tried,
                   bufferedBody, bodyReads, now, startTime, gatherTime,
                   raceStart, winner>>

\* ------------------------------------------------------------- asyncBlock
AsyncBlockStart ==
    /\ UNCHANGED dispatchVars
    /\ pc = "start"
    /\ strategy = "async-block"
    /\ startTime' = now
    /\ bufferRequestBody(AfterBuffer)
    /\ UNCHANGED <<strategy, endpoints, failoverStatuses, request, idx, tried,
                   lastError, bufferedBody, attempts, now, gatherTime,
                   raceStart, winner, outcome>>

\* mutant: the forward is started together with the probe
AsyncBlockNextEager ==
    /\ UNCHANGED dispatchVars
    /\ pc = "loop"
    /\ strategy = "async-block"
    /\ idx <= Len(endpoints)
    /\ tried' = Append(tried, endpoints[idx])
    /\ gatherTime' = now
    /\ attempts' = attempts \o <<Probe(idx), Forward(idx)>>
    /\ pc' = "probing"
    /\ UNCHANGED <<strategy, endpoints, failoverStatuses, request, idx,
                   lastError, bufferedBody, bodyReads, now, startTime,
                   raceStart, winner, outcome>>

\* head of the for loop: push the candidate, take gatherTime, start its probe
AsyncBlockNext ==
    /\ UNCHANGED dispatchVars
    /\ pc = "loop"
    /\ strategy = "async-block"
    /\ IF idx > Len(endpoints)
       THEN /\ outcome' = NoHealthyEndpointsError(tried, lastError)
            /\ pc' = "done"
            /\ UNCHANGED <<tried, gatherTime, attempts>>
       ELSE /\ tried' = PushTried(tried, endpoints[idx])
            /\ gatherTime' = now
            /\ attempts' = Append(attempts, Probe(idx))
            /\ pc' = "probing"
            /\ UNCHANGED outcome
    /\ UNCHANGED <<strategy, endpoints, failoverStatuses, request, idx,
                   lastError, bufferedBody, bodyReads, now, startTime,
                   raceStart, winner>>

\* checker.check(endpoint) settles: a healthy origin is forwarded to, an
\* unhealthy one is skipped
AsyncBlockProbed ==
    /\ UNCHANGED dispatchVars
    /\ pc = "probing"
    /\ strategy = "async-block"
    /\ \E probeState \in {"healthy", "unhealthy"} :
        LET settled == Settle(Len(attempts), probeState, 0)
        IN  IF HealthGate(probeState)
            THEN /\ attempts' = Append(settled, Forward(idx))
                 /\ pc' = "forwarding"
                 /\ UNCHANGED <<idx, lastError>>
            ELSE /\ attempts' = settled
                 /\ lastError' = UnhealthyError(idx)
                 /\ idx' = NextCandidate(idx)
                 /\ pc' = "loop"
    /\ UNCHANGED <<strategy, endpoints, failoverStatuses, request, tried,
                   bufferedBody, bodyReads, now, startTime, gatherTime,
                   raceStart, winner, outcome>>

\* mutant: asyncBlock fails over on the default failover statuses too
AsyncBlockSettledOnStatus ==
    /\ UNCHANGED dispatchVars
    /\ pc = "forwarding"
    /\ strategy = "async-block"
    /\ \E res \in ForwardResults :
        /\ attempts' = Settle(Len(attempts), IF res.ok THEN "ok" ELSE "error", res.status)
        /\ IF res.ok /\ res.status \notin DEFAULT_FAILOVER_STATUSES
           THEN /\ outcome' = addLoadBalancerHeaders(res.status, endpoints[idx], tried,
                                                     startTime, gatherTime)
                /\ pc' = "done"
                /\ UNCHANGED <<idx, lastError>>
           ELSE /\ lastError' = IF res.ok THEN BadStatusError(res.status)
                                ELSE TransportError(idx)
                /\ idx' = idx + 1
                /\ pc' = "loop"
                /\ UNCHANGED outcome
    /\ UNCHANGED <<strategy, endpoints, failoverStatuses, request, tried,
                   bufferedBody, bodyReads, now, startTime, gatherTime,
                   raceStart, winner>>

\* the forward to the healthy origin settles: any response is returned
AsyncBlockSettled ==
    /\ UNCHANGED dispatchVars
    /\ pc = "forwarding"
    /\ strategy = "async-block"
    /\ \E res \in ForwardResults :
        /\ attempts' = Settle(Len(attempts), IF res.ok THEN "ok" ELSE "error", res.status)
        /\ IF res.ok
           THEN /\ outcome' = addLoadBalancerHeaders(res.status, endpoints[idx], tried,
                                                     startTime, gatherTime)
                /\ pc' = "done"
                /\ UNCHANGED <<idx, lastError>>
           ELSE /\ lastError' = TransportError(idx)
                /\ idx' = NextCandidate(idx)
                /\ pc' = "loop"
                /\ UNCHANGED outcome
    /\ UNCHANGED <<strategy, endpoints, failoverStatuses, request, tried,
                   bufferedBody, bodyReads, now, startTime, gatherTime,
                   raceStart, winner>>

\* ------------------------------------------------------------- promiseAny
\* mutant: the body is buffered before the candidate list is looked at
PromiseAnyStartBuffersFirst ==
    /\ UNCHANGED dispatchVars
    /\ pc = "start"
    /\ strategy = "promise-any"
    /\ startTime' = now
    /\ bufferRequestBody(AfterBuffer)
    /\ UNCHANGED <<strategy, endpoints, failoverStatuses, request, idx, tried,
                   lastError, bufferedBody, attempts, now, gatherTime,
                   raceStart, winner, outcome>>

\* an empty candidate list fails before the body is touched
PromiseAnyStart ==
    /\ UNCHANGED dispatchVars
    /\ pc = "start"
    /\ strategy = "promise-any"
    /\ startTime' = now
    /\ IF Len(endpoints) = 0
       THEN /\ outcome' = NoHealthyEndpointsError(<<>>, NoError)
            /\ pc' = "done"
            /\ UNCHANGED bodyReads
       ELSE /\ bufferRequestBody(AfterBuffer)
            /\ UNCHANGED outcome
    /\ UNCHANGED <<strategy, endpoints, failoverStatuses, request, idx, tried,
                   lastError, bufferedBody, attempts, now, gatherTime,
                   raceStart, winner>>

\* Effect.raceAll(endpoints.map(...)): one probe per candidate, all in flight
PromiseAnyRace ==
    /\ UNCHANGED dispatchVars
    /\ pc = "race"
    /\ strategy = "promise-any"
    /\ attempts' = [i \in 1..Len(endpoints) |-> Probe(i)]
    /\ raceStart' = now
    /\ pc' = "racing"
    /\ UNCHANGED <<strategy, endpoints, failoverStatuses, request, idx, tried,
                   lastError, bufferedBody, bodyReads, now, startTime,
                   gatherTime, winner, outcome>>

\* the racers that lose are interrupted
Interrupt(atts) ==
    [k \in DOMAIN atts |->
        IF atts[k].kind = "probe" /\ atts[k].state = "pending"
        THEN [atts[k] EXCEPT !.state = "interrupted"]
        ELSE atts[k]]

\* the probe of candidate i settles while the race is on: a healthy one wins,
\* the others are interrupted and the request is forwarded to the winner
PromiseAnyProbed(i) ==
    /\ UNCHANGED dispatchVars
    /\ pc = "racing"
    /\ strategy = "promise-any"
    /\ i \in Pending
    /\ \E probeState \in {"healthy", "unhealthy"} :
        LET settled == Settle(i, probeState, 0)
        IN  IF ProbeWins(probeState)
            THEN /\ winner' = i
                 /\ gatherTime' = now
                 /\ attempts' = Append(Interrupt(settled), Forward(i))
                 /\ pc' = "forwarding"
                 /\ UNCHANGED outcome
            ELSE IF RaceFails(settled)
            THEN /\ attempts' = settled
                 /\ outcome' = NoHealthyEndpointsError(TimeoutTried(endpoints), NoError)
                 /\ pc' = "done"
                 /\ UNCHANGED <<winner, gatherTime>>
            ELSE /\ attempts' = settled
                 /\ UNCHANGED <<winner, gatherTime, pc, outcome>>
    /\ UNCHANGED <<strategy, endpoints, failoverStatuses, request, idx, tried,
                   lastError, bufferedBody, bodyReads, now, startTime, raceStart>>

\* the ceiling is reached with no winner: Option.none
PromiseAnyTimeout ==
    /\ UNCHANGED dispatchVars
    /\ pc = "racing"
    /\ strategy = "promise-any"
    /\ RaceTimedOut(now - raceStart)
    /\ attempts' = Interrupt(attempts)
    /\ outcome' = NoHealthyEndpointsError(TimeoutTried(endpoints), NoError)
    /\ pc' = "done"
    /\ UNCHANGED <<strategy, endpoints, failoverStatuses, request, idx, tried,
                   lastError, bufferedBody, bodyReads, now, startTime,
                   gatherTime, raceStart, winner>>

\* mutant: a failed forward is retried on the next candidate
PromiseAnySettledRetries ==
    /\ UNCHANGED dispatchVars
    /\ pc = "forwarding"
    /\ strategy = "promise-any"
    /\ \E res \in ForwardResults :
        LET settled == Settle(Len(attempts), IF res.ok THEN "ok" ELSE "error", res.status)
            other == (winner % Len(endpoints)) + 1
        IN  IF res.ok
            THEN /\ attempts' = settled
                 /\ outcome' = addLoadBalancerHeaders(res.status, endpoints[winner],
                                                      <<endpoints[winner]>>,
                                                      startTime, gatherTime)
                 /\ pc' = "done"
                 /\ UNCHANGED winner
            ELSE IF Len(attempts) <= Len(endpoints) + 1 /\ other # winner
            THEN /\ attempts' = Append(settled, Forward(other))
                 /\ winner' = other
                 /\ UNCHANGED <<pc, outcome>>
            ELSE /\ attempts' = settled
                 /\ outcome' = NoHealthyEndpointsError(endpoints, TransportError(winner))
                 /\ pc' = "done"
                 /\ UNCHANGED winner
    /\ UNCHANGED <<strategy, endpoints, failoverStatuses, request, idx, tried,
                   lastError, bufferedBody, bodyReads, now, startTime,
                   gatherTime, raceStart>>

\* the single forward to the winner settles
PromiseAnySettled ==
    /\ UNCHANGED dispatchVars
    /\ pc = "forwarding"
    /\ strategy = "promise-any"
    /\ \E res \in ForwardResults :
        /\ attempts' = Settle(Len(attempts), IF res.ok THEN "ok" ELSE "error", res.status)
        /\ outcome' =
            IF res.ok
            THEN addLoadBalancerHeaders(res.status, endpoints[winner],
                                        SuccessTried(endpoints, winner),
                                        startTime, gatherTime)
            ELSE NoHealthyEndpointsError(ForwardFailTried(endpoints, winner),
                                         TransportError(winner))
    /\ pc' = "done"
    /\ UNCHANGED <<strategy, endpoints, failoverStatuses, request, idx, tried,
                   lastError, bufferedBody, bodyReads, now, startTime,
                   gatherTime, raceStart, winner>>

\* mutant: a late answer of an interrupted probe takes over as the winner
AbandonedProbeTakesOver(i) ==
    /\ UNCHANGED dispatchVars
    /\ strategy = "promise-any"
    /\ i \in DOMAIN attempts
    /\ attempts[i].kind = "probe"
    /\ attempts[i].state = "interrupted"
    /\ attempts' = Settle(i, "discarded", 0)
    /\ winner' = i
    /\ UNCHANGED <<strategy, endpoints, failoverStatuses, request, pc, idx,
                   tried, lastError, bufferedBody, bodyReads, now, startTime,
                   gatherTime, raceStart, outcome>>

\* the network answers a probe whose racer was interrupted: nobody listens
AbandonedProbeSettles(i) ==
    /\ UNCHANGED dispatchVars
    /\ strategy = "promise-any"
    /\ i \in DOMAIN attempts
    /\ attempts[i].kind = "probe"
    /\ attempts[i].state = "interrupted"
    /\ attempts' = Settle(i, "discarded", 0)
    /\ UNCHANGED <<strategy, endpoints, failoverStatuses, request, pc, idx,
                   tried, lastError, bufferedBody, bodyReads, now, startTime,
                   gatherTime, raceStart, winner, outcome>>

\* ------------------------------------------------------------------ time
\* a second passes while the run is suspended on network I/O
Tick ==
    /\ UNCHANGED dispatchVars
    /\ pc \in {"reading", "probing", "forwarding", "racing"}
    /\ \/ now < MaxNow
       \/ pc = "racing" /\ now - raceStart < RACE_TIMEOUT_SECONDS
    /\ now' = now + 1
    /\ UNCHANGED <<strategy, endpoints, failoverStatuses, request, pc, idx,
                   tried, lastError, bufferedBody, bodyReads, attempts,
                   startTime, gatherTime, raceStart, winner, outcome>>

Next ==
    \/ BodyRead
    \/ FailForwardStart
    \/ FailForwardNext
    \/ FailForwardSettled
    \/ AsyncBlockStart
    \/ AsyncBlockNext
    \/ AsyncBlockProbed
    \/ AsyncBlockSettled
    \/ PromiseAnyStart
    \/ PromiseAnyRace
    \/ \E i \in 1..(MaxCandidates + 1) : PromiseAnyProbed(i)
    \/ PromiseAnyTimeout
    \/ PromiseAnySettled
    \/ \E i \in 1..(MaxCandidates + 1) : AbandonedProbeSettles(i)
    \/ Tick

Spec == Init /\ [][Next]_vars

\* ------------------------------------------------------------- scheduling
\* a strategy run on a POST with a body and the default failover statuses
InitTermination ==
    /\ Init
    /\ failoverStatuses = DEFAULT_FAILOVER_STATUSES
    /\ request = [method |-> "POST", hasBody |-> TRUE]

\* The runtime resumes the generator whenever it can continue, the body
\* read and every forward settle, in failForward and asyncBlock every probe
\* settles, the clock advances and the timer of Effect.timeout fires.  The
\* probes of the promiseAny race need not settle.
Fairness ==
    /\ WF_vars(BodyRead)
    /\ WF_vars(FailForwardStart)
    /\ WF_vars(FailForwardNext)
    /\ WF_vars(FailForwardSettled)
    /\ WF_vars(AsyncBlockStart)
    /\ WF_vars(AsyncBlockNext)
    /\ WF_vars(AsyncBlockProbed)
    /\ WF_vars(AsyncBlockSettled)
    /\ WF_vars(PromiseAnyStart)
    /\ WF_vars(PromiseAnyRace)
    /\ WF_vars(PromiseAnyTimeout)
    /\ WF_vars(PromiseAnySettled)
    /\ WF_vars(Tick)

SpecTermination == InitTermination /\ [][Next]_vars /\ Fairness

\* ---------------------------------------- Forward.ts called on its own
\* request methods in several spellings
AllMethods ==
    {"GET", "get", "gEt", "HEAD", "head", "Head", "OPTIONS", "options", "OPTIONs",
     "POST", "post", "Post", "PUT", "put", "patch", "DELETE", "delete"}

\* bufferRequestBody and forwardRequest applied to one request and one
\* endpoint, the buffer handed to forwardRequest being any buffer
InitForward ==
    /\ strategy = "fail-forward"
    /\ endpoints = <<1>>
    /\ failoverStatuses = DEFAULT_FAILOVER_STATUSES
    /\ request \in [method : AllMethods, hasBody : BOOLEAN]
    /\ pc = "call"
    /\ idx = 1
    /\ tried = <<>>
    /\ lastError = NoError
    /\ bufferedBody = "null"
    /\ bodyReads = 0
    /\ attempts = <<>>
    /\ now = 0
    /\ startTime = 0
    /\ gatherTime = 0
    /\ raceStart = 0
    /\ winner = 0
    /\ outcome = NoOutcome
    /\ recoveryFn = FALSE
    /\ context = NoContext
    /\ hook = NoHook
    /\ result = NoOutcome
    /\ options = NoOptions
    /\ cf = NoCf
    /\ matched = <<>>
    /\ selected = <<>>
    /\ origin = NoEndpoint
    /\ derived = NoDerived
    /\ response = NoResponse
    /\ annotated = NoResponse
    /\ calls = NoCalls

\* yield* bufferRequestBody(request)
CallBufferRequestBody ==
    /\ pc = "call"
    /\ bufferRequestBody("buffered")
    /\ UNCHANGED <<strategy, endpoints, failoverStatuses, request, idx, tried,
                   lastError, bufferedBody, attempts, now, startTime,
                   gatherTime, raceStart, winner, outcome>>
    /\ UNCHANGED dispatchVars

\* request.arrayBuffer() settles: the buffer, or a RequestForwardError
BufferSettled ==
    /\ pc = "reading"
    /\ \E ok \in BOOLEAN :
        /\ bufferedBody' = IF ok THEN "payload" ELSE "null"
        /\ lastError' = IF ok THEN lastError ELSE BufferError
    /\ pc' = "buffered"
    /\ UNCHANGED <<strategy, endpoints, failoverStatuses, request, idx, tried,
                   bodyReads, attempts, now, startTime, gatherTime, raceStart,
                   winner, outcome>>
    /\ UNCHANGED dispatchVars

\* forwardRequest(endpoint, request, b) for any buffer b, null included
CallForwardRequest ==
    /\ pc = "buffered"
    /\ \E b \in {"null", "payload"} :
        /\ bufferedBody' = b
        /\ attempts' = Append(attempts,
                [kind |-> "forward", idx |-> 1, state |-> "pending", status |-> 0,
                 body |-> ForwardBody(request.method, b)])
    /\ pc' = "forwarding"
    /\ UNCHANGED <<strategy, endpoints, failoverStatuses, request, idx, tried,
                   lastError, bodyReads, now, startTime, gatherTime, raceStart,
                   winner, outcome>>
    /\ UNCHANGED dispatchVars

\* fetch settles: the Response as it is, or a RequestForwardError
ForwardRequestSettled ==
    /\ pc = "forwarding"
    /\ \E res \in ForwardResults :
        /\ attempts' = Settle(Len(attempts), IF res.ok THEN "ok" ELSE "error", res.status)
        /\ lastError' = IF res.ok THEN lastError ELSE TransportError(1)
    /\ pc' = "forwarded"
    /\ UNCHANGED <<strategy, endpoints, failoverStatuses, request, idx, tried,
                   bufferedBody, bodyReads, now, startTime, gatherTime,
                   raceStart, winner, outcome>>
    /\ UNCHANGED dispatchVars

NextForward ==
    \/ CallBufferRequestBody
    \/ BufferSettled
    \/ CallForwardRequest
    \/ ForwardRequestSettled

SpecForward == InitForward /\ [][NextForward]_vars

\* ------------------------------------------ LoadBalancer.handleRequest
\* failoverOnStatuses configured on the load balancer
HandleFailoverSets == {{500, 502}}

\* options.availability: undefined, fail-forward without and with
\* failoverOnStatuses, async-block, promise-any
HandleAvailabilities ==
    {NoAvailability}
    \cup {[type |-> t, hasStatuses |-> FALSE, failoverOnStatuses |-> {}] : t \in Strategies}
    \cup {[type |-> "fail-forward", hasStatuses |-> TRUE, failoverOnStatuses |-> f] :
            f \in HandleFailoverSets}

\* const availability = options.availability ?? { type: "fail-forward",
\* failoverOnStatuses: [502, 503, 504] }
ResolveAvailability(a) ==
    IF a.type = "undefined"
    THEN [type |-> "fail-forward", hasStatuses |-> TRUE,
          failoverOnStatuses |-> {502, 503, 504}]
    ELSE a

\* mutant: a fail-forward configuration without statuses fails over on none
StatusesNoneWhenAbsent(a) ==
    IF a.hasStatuses THEN a.failoverOnStatuses ELSE {}

\* "failoverOnStatuses" in availability ? availability.failoverOnStatuses
\* : [502, 503, 504]
Statuses(a) ==
    IF a.hasStatuses THEN a.failoverOnStatuses ELSE {502, 503, 504}

\* requests handled: a GET and a POST, each with a body stream
HandleRequests == [method : Methods, hasBody : {TRUE}]

\* a handleRequest call: the options (availability method, endpoints,
\* recoveryFn set or not) and the request
InitHandle ==
    /\ strategy = "none"
    /\ endpoints \in CandidateLists
    /\ failoverStatuses = {}
    /\ request \in HandleRequests
    /\ pc = "handle"
    /\ idx = 1
    /\ tried = <<>>
    /\ lastError = NoError
    /\ bufferedBody = "null"
    /\ bodyReads = 0
    /\ attempts = <<>>
    /\ now = 0
    /\ startTime = 0
    /\ gatherTime = 0
    /\ raceStart = 0
    /\ winner = 0
    /\ outcome = NoOutcome
    /\ recoveryFn \in BOOLEAN
    /\ context = NoContext
    /\ hook = NoHook
    /\ result = NoOutcome
    /\ options \in [endpoints : {<<>>}, geoEndpoints : {NoGeoEndpoints},
                    steering : {NoSteering}, availability : HandleAvailabilities]
    /\ cf = NoCf
    /\ matched = <<>>
    /\ selected = <<>>
    /\ origin = NoEndpoint
    /\ derived = NoDerived
    /\ response = NoResponse
    /\ annotated = NoResponse
    /\ calls = NoCalls

\* the state of a strategy run that handleRequest's own steps leave alone
runVars ==
    <<endpoints, request, idx, tried, lastError, bufferedBody, bodyReads,
      attempts, now, startTime, gatherTime, raceStart, winner, outcome>>

strategyVars ==
    <<strategy, endpoints, failoverStatuses, request, idx, tried, lastError,
      bufferedBody, bodyReads, attempts, now, startTime, gatherTime,
      raceStart, winner, outcome>>

\* the Response a recoveryFn returns (its content is the user's)
RecoveryResponse == [type |-> "recovery-response"]

\* mutant: the recovery handler runs on every outcome of the strategy
RecoveryAppliesAlways(out) == TRUE

\* Effect.catchAll runs its handler on a failure of the effect only
RecoveryApplies(out) == out.type = "NoHealthyEndpointsError"

\* mutant: a fresh error is raised after the recoveryFn declined
RecoveryFailureFresh(error) == NoHealthyEndpointsError(<<>>, NoError)

\* return yield* Effect.fail(error)
RecoveryFailure(error) == error

\* mutant: the strategy is run on an empty endpointsToTry as well
HandleRequestRunsStrategy ==
    /\ pc = "handle"
    /\ LET availability == ResolveAvailability(options.availability)
       IN  /\ strategy' = availability.type
           /\ failoverStatuses' = IF availability.type = "fail-forward"
                                   THEN Statuses(availability)
                                   ELSE DEFAULT_FAILOVER_STATUSES
    /\ pc' = "start"
    /\ UNCHANGED <<recoveryFn, context, hook, result>>
    /\ UNCHANGED configVars
    /\ UNCHANGED runVars

\* handleRequest up to runWithMethod(): an empty endpointsToTry fails at
\* once, before tapError and withRecovery are applied
HandleRequest ==
    /\ pc = "handle"
    /\ IF Len(endpoints) = 0
       THEN /\ result' = NoHealthyEndpointsError(<<>>, NoError)
            /\ pc' = "returned"
            /\ UNCHANGED <<strategy, failoverStatuses>>
       ELSE LET availability == ResolveAvailability(options.availability)
            IN  /\ strategy' = availability.type
                /\ failoverStatuses' = IF availability.type = "fail-forward"
                                        THEN Statuses(availability)
                                        ELSE DEFAULT_FAILOVER_STATUSES
                /\ result' = result
                /\ pc' = "start"
    /\ UNCHANGED <<recoveryFn, context, hook>>
    /\ UNCHANGED configVars
    /\ UNCHANGED runVars

\* mutant: getContext() is evaluated before tapError has copied the error
HandleSettledStaleContext ==
    /\ pc = "done"
    /\ LET failed == outcome.type = "NoHealthyEndpointsError"
           ctx == IF failed
                  THEN [triedEndpoints |-> outcome.triedEndpoints,
                        lastError |-> outcome.lastError]
                  ELSE context
       IN  /\ context' = ctx
           /\ IF recoveryFn /\ RecoveryApplies(outcome)
              THEN /\ hook' = [calls |-> hook.calls + 1, context |-> context,
                               returned |-> "pending"]
                   /\ result' = result
                   /\ pc' = "recovering"
              ELSE /\ hook' = hook
                   /\ result' = outcome
                   /\ pc' = "returned"
    /\ UNCHANGED recoveryFn
    /\ UNCHANGED configVars
    /\ UNCHANGED strategyVars

\* the strategy's effect ends: tapError copies the error into the recovery
\* context, then withRecovery calls recoveryFn(request, getContext()) when a
\* recoveryFn is set
HandleSettled ==
    /\ pc = "done"
    /\ LET failed == outcome.type = "NoHealthyEndpointsError"
           ctx == IF failed
                  THEN [triedEndpoints |-> outcome.triedEndpoints,
                        lastError |-> outcome.lastError]
                  ELSE context
       IN  /\ context' = ctx
           /\ IF recoveryFn /\ RecoveryApplies(outcome)
              THEN /\ hook' = [calls |-> hook.calls + 1, context |-> ctx,
                               returned |-> "pending"]
                   /\ result' = result
                   /\ pc' = "recovering"
              ELSE /\ hook' = hook
                   /\ result' = outcome
                   /\ pc' = "returned"
    /\ UNCHANGED recoveryFn
    /\ UNCHANGED configVars
    /\ UNCHANGED strategyVars

\* recoveryFn settles: its Response is returned, undefined fails with the
\* error that was caught
RecoverySettled ==
    /\ pc = "recovering"
    /\ \E r \in {"response", "undefined"} :
        /\ hook' = [hook EXCEPT !.returned = r]
        /\ result' = IF r = "response" THEN RecoveryResponse
                     ELSE RecoveryFailure(outcome)
    /\ pc' = "returned"
    /\ UNCHANGED <<recoveryFn, context>>
    /\ UNCHANGED configVars
    /\ UNCHANGED strategyVars

NextHandle ==
    \/ HandleRequest
    \/ HandleSettled
    \/ RecoverySettled
    \/ Next

SpecHandle == InitHandle /\ [][NextHandle]_vars

\* ------------------------------------------ GeoEndpoint.ts, GeoSteering.ts
\* A string is the sequence of its pieces, "/" being a piece of its own.
\* endpoint urls: two hosts, one of them also written with a trailing slash
Urls == {<<"https://us">>, <<"https://us", "/">>, <<"https://eu">>}

\* mutant: every trailing slash is removed
RECURSIVE normalizedUrlStripsAll(_)
normalizedUrlStripsAll(url) ==
    IF url # <<>> /\ url[Len(url)] = "/"
    THEN normalizedUrlStripsAll(SubSeq(url, 1, Len(url) - 1))
    ELSE url

\* mutant: the url is used as it is written
normalizedUrlRaw(url) == url

\* this.url.replace(/\/$/, "")
normalizedUrl(url) ==
    IF url # <<>> /\ url[Len(url)] = "/" THEN SubSeq(url, 1, Len(url) - 1) ELSE url

\* an Endpoint, by its url
Endpoints == [url : Urls]

\* geo codes, one of them also in lower case
Codes == {"NA", "na", "EU"}

\* the four GeoConfig variants; codes stands for continents, countries,
\* regions or colos
GeoTypes == {"continent", "country", "region", "colo"}

\* GeoEndpoint.toEndpoint()
toEndpoint(ge) == [url |-> ge.url]

\* mutant: a rule matches when any field of request.cf is in its set
matchesAnyField(ge, c) ==
    \/ c.continent \in ge.geo.codes
    \/ c.country \in ge.geo.codes
    \/ c.regionCode \in ge.geo.codes
    \/ c.colo \in ge.geo.codes

\* GeoEndpoint.matchesCfProperties(cf)
matchesCfProperties(ge, c) ==
    CASE ge.geo.type = "continent" ->
            c.continent # "undefined" /\ c.continent \in ge.geo.codes
      [] ge.geo.type = "country" ->
            c.country # "undefined" /\ c.country \in ge.geo.codes
      [] ge.geo.type = "region" ->
            c.regionCode # "undefined" /\ c.regionCode \in ge.geo.codes
      [] ge.geo.type = "colo" ->
            c.colo # "undefined" /\ c.colo \in ge.geo.codes

\* geoEndpoints.filter((ge) => ge.matchesCfProperties(cf))
Matched(geoEndpoints, c) ==
    SelectSeq(geoEndpoints, LAMBDA ge : matchesCfProperties(ge, c))

RECURSIVE MapToEndpoint(_)
\* geoEndpoints.map((ge) => ge.toEndpoint())
MapToEndpoint(geoEndpoints) ==
    IF geoEndpoints = <<>> THEN <<>>
    ELSE <<toEndpoint(Head(geoEndpoints))>> \o MapToEndpoint(Tail(geoEndpoints))

RECURSIVE PushAll(_, _)
\* for (const ge of matched): push, seen.add(ge.url)
PushAll(eps, acc) ==
    IF eps = <<>> THEN acc
    ELSE PushAll(Tail(eps),
                 [ordered |-> Append(acc.ordered, Head(eps)),
                  seen |-> acc.seen \cup {Head(eps).url}])

RECURSIVE PushUnseen(_, _)
\* for (const ep of ...): if (!seen.has(ep.url)) push, seen.add(ep.url)
PushUnseen(eps, acc) ==
    IF eps = <<>> THEN acc
    ELSE PushUnseen(Tail(eps),
                    IF Head(eps).url \in acc.seen THEN acc
                    ELSE [ordered |-> Append(acc.ordered, Head(eps)),
                          seen |-> acc.seen \cup {Head(eps).url}])

\* mutant: the geo endpoints are appended to the defaults
NoMatchListAddsGeo(geoEndpoints, defaultEndpoints) ==
    defaultEndpoints \o MapToEndpoint(geoEndpoints)

\* defaultEndpoints.length > 0 ? [...defaultEndpoints] : geoEndpoints.map(...)
NoMatchList(geoEndpoints, defaultEndpoints) ==
    IF Len(defaultEndpoints) > 0 THEN defaultEndpoints
    ELSE MapToEndpoint(geoEndpoints)

\* mutant: the defaults are added after the remaining geo endpoints
OrderedListDefaultsLast(geoEndpoints, m, defaultEndpoints) ==
    LET first == PushAll(MapToEndpoint(m), [ordered |-> <<>>, seen |-> {}])
        second == PushUnseen(MapToEndpoint(geoEndpoints), first)
        third == PushUnseen(defaultEndpoints, second)
    IN  third.ordered

\* the ordered list: matched -> defaults -> remaining
OrderedList(geoEndpoints, m, defaultEndpoints) ==
    LET first == PushAll(MapToEndpoint(m), [ordered |-> <<>>, seen |-> {}])
        second == PushUnseen(defaultEndpoints, first)
        third == PushUnseen(MapToEndpoint(geoEndpoints), second)
    IN  third.ordered

selectGeoEndpoints(geoEndpoints, c, defaultEndpoints) ==
    IF ~c.defined THEN NoMatchList(geoEndpoints, defaultEndpoints)
    ELSE LET m == Matched(geoEndpoints, c)
         IN  IF Len(m) > 0 THEN OrderedList(geoEndpoints, m, defaultEndpoints)
             ELSE NoMatchList(geoEndpoints, defaultEndpoints)

\* mutant: a configured geo list alone turns geo selection on
GeoSteeredByList(opts) == opts.geoEndpoints.defined

\* the request is geo steered: options.steering?.type === "geo" && options.geoEndpoints
GeoSteered(opts) == opts.steering.type = "geo" /\ opts.geoEndpoints.defined

getEndpointsToTry(opts, c) ==
    IF GeoSteered(opts)
    THEN selectGeoEndpoints(opts.geoEndpoints.list, c, opts.steering.defaultEndpoints)
    ELSE opts.endpoints

\* geo rules of the selection runs: two dimensions, one code
SelectionRules == [type : {"continent", "country"}, codes : {{"NA"}}]

\* geo endpoints of the selection runs
SelectionGeoEndpoints == [url : Urls, geo : SelectionRules]

\* request.cf of the selection runs: undefined, or continent and country
SelectionCfs ==
    {NoCf} \cup
    {[defined |-> TRUE, continent |-> a, country |-> b,
      regionCode |-> "undefined", colo |-> "undefined"] :
        a \in {"undefined", "NA", "EU"}, b \in {"undefined", "NA"}}

\* options.geoEndpoints: undefined or a list
SelectionGeoLists ==
    {NoGeoEndpoints} \cup
    {[defined |-> TRUE, list |-> l] : l \in SeqsUpTo(SelectionGeoEndpoints, MaxCandidates)}

\* options.steering: undefined or geo with its defaultEndpoints
SelectionSteerings ==
    {NoSteering} \cup
    {[type |-> "geo", defaultEndpoints |-> l] : l \in SeqsUpTo(Endpoints, MaxCandidates - 1)}

\* options.endpoints: none or one
FlatLists == {<<>>} \cup {<<e>> : e \in Endpoints}

\* the candidate list of one request is computed
InitGeo ==
    /\ strategy = "fail-forward"
    /\ endpoints = <<>>
    /\ failoverStatuses = DEFAULT_FAILOVER_STATUSES
    /\ request = [method |-> "get", hasBody |-> FALSE]
    /\ pc = "select"
    /\ idx = 1
    /\ tried = <<>>
    /\ lastError = NoError
    /\ bufferedBody = "null"
    /\ bodyReads = 0
    /\ attempts = <<>>
    /\ now = 0
    /\ startTime = 0
    /\ gatherTime = 0
    /\ raceStart = 0
    /\ winner = 0
    /\ outcome = NoOutcome
    /\ recoveryFn = FALSE
    /\ context = NoContext
    /\ hook = NoHook
    /\ result = NoOutcome
    /\ options \in [endpoints : FlatLists, geoEndpoints : SelectionGeoLists,
                    steering : SelectionSteerings, availability : {NoAvailability}]
    /\ cf \in SelectionCfs
    /\ matched = <<>>
    /\ selected = <<>>
    /\ origin = NoEndpoint
    /\ derived = NoDerived
    /\ response = NoResponse
    /\ annotated = NoResponse
    /\ calls = NoCalls

\* const endpointsToTry = getEndpointsToTry(options, request.cf)
GetEndpointsToTry ==
    /\ pc = "select"
    /\ selected' = getEndpointsToTry(options, cf)
    /\ matched' = IF GeoSteered(options) /\ cf.defined
                  THEN Matched(options.geoEndpoints.list, cf) ELSE <<>>
    /\ pc' = "selected"
    /\ UNCHANGED <<recoveryFn, context, hook, result, options, cf>>
    /\ UNCHANGED callVars
    /\ UNCHANGED strategyVars

NextGeo == GetEndpointsToTry

SpecGeo == InitGeo /\ [][NextGeo]_vars

\* geo rules of the matching runs: every dimension, two sets
MatchRules == [type : GeoTypes, codes : {{"NA"}, {"EU", "NA"}}]

\* request.cf of the matching runs: every field absent or a code
MatchCfs ==
    [defined : {TRUE}, continent : Codes \cup {"undefined"},
     country : Codes \cup {"undefined"}, regionCode : Codes \cup {"undefined"},
     colo : Codes \cup {"undefined"}]

\* one geo endpoint is matched against one request.cf
InitMatch ==
    /\ strategy = "fail-forward"
    /\ endpoints = <<>>
    /\ failoverStatuses = DEFAULT_FAILOVER_STATUSES
    /\ request = [method |-> "get", hasBody |-> FALSE]
    /\ pc = "match"
    /\ idx = 1
    /\ tried = <<>>
    /\ lastError = NoError
    /\ bufferedBody = "null"
    /\ bodyReads = 0
    /\ attempts = <<>>
    /\ now = 0
    /\ startTime = 0
    /\ gatherTime = 0
    /\ raceStart = 0
    /\ winner = 0
    /\ outcome = NoOutcome
    /\ recoveryFn = FALSE
    /\ context = NoContext
    /\ hook = NoHook
    /\ result = NoOutcome
    /\ \E rule \in MatchRules :
        options = [NoOptions EXCEPT
                     !.geoEndpoints =
                        [defined |-> TRUE,
                         list |-> <<[url |-> <<"https://us">>,
                                     geo |-> rule]>>]]
    /\ cf \in MatchCfs
    /\ matched = <<>>
    /\ selected = <<>>
    /\ origin = NoEndpoint
    /\ derived = NoDerived
    /\ response = NoResponse
    /\ annotated = NoResponse
    /\ calls = NoCalls

\* ge.matchesCfProperties(cf) for the geo endpoint of the options
CallMatchesCfProperties ==
    /\ pc = "match"
    /\ matched' = Matched(options.geoEndpoints.list, cf)
    /\ pc' = "matched"
    /\ UNCHANGED <<recoveryFn, context, hook, result, options, cf, selected>>
    /\ UNCHANGED callVars
    /\ UNCHANGED strategyVars

NextMatch == CallMatchesCfProperties

SpecMatch == InitMatch /\ [][NextMatch]_vars

\* ----------------------------------------- Endpoint.ts, HealthChecker.ts
\* a string of n slashes
RECURSIVE Slashes(_)
Slashes(n) == IF n = 0 THEN <<>> ELSE <<"/">> \o Slashes(n - 1)

\* origin URLs: with and without a path, ending in 0..MaxSlashes slashes
EndpointUrls ==
    {base \o Slashes(n) :
        base \in {<<"https://us">>, <<"https://us", "/", "api">>}, n \in 0..MaxSlashes}

HealthCheckPaths == {<<"/">>, <<"/", "health">>}

\* request timeouts in milliseconds, around the floor and the cap of the probe timeout
TimeoutValues == {1, 500, 999, 1000, 1999, 2000, 2001, 3001, 19999, 20000, 20001, 30000}

Pathnames == {<<"/">>, <<"/", "users">>}

Searches == {<<>>, <<"?q=1">>}

\* mutant: the probe timeout is half the request timeout, without a floor
getHealthCheckTimeoutNoFloor(endpoint) ==
    IF endpoint.timeoutMs \div 2 < 10000 THEN endpoint.timeoutMs \div 2 ELSE 10000

getHealthCheckTimeout(endpoint) ==
    LET halfTimeout == endpoint.timeoutMs \div 2
        capped == IF halfTimeout < 10000 THEN halfTimeout ELSE 10000
    IN  IF capped > 1000 THEN capped ELSE 1000

healthCheckUrl(endpoint) == normalizedUrl(endpoint.url) \o endpoint.healthCheckPath

buildTargetUrl(endpoint, pathname, search) ==
    normalizedUrl(endpoint.url) \o pathname \o search

\* one Endpoint is constructed; its getters have not been called
InitEndpoint ==
    /\ strategy = "fail-forward"
    /\ endpoints = <<>>
    /\ failoverStatuses = DEFAULT_FAILOVER_STATUSES
    /\ request = [method |-> "get", hasBody |-> FALSE]
    /\ pc = "endpoint"
    /\ idx = 1
    /\ tried = <<>>
    /\ lastError = NoError
    /\ bufferedBody = "null"
    /\ bodyReads = 0
    /\ attempts = <<>>
    /\ now = 0
    /\ startTime = 0
    /\ gatherTime = 0
    /\ raceStart = 0
    /\ winner = 0
    /\ outcome = NoOutcome
    /\ recoveryFn = FALSE
    /\ context = NoContext
    /\ hook = NoHook
    /\ result = NoOutcome
    /\ options = NoOptions
    /\ cf = NoCf
    /\ matched = FALSE
    /\ selected = <<>>
    /\ origin \in [url : EndpointUrls, healthCheckPath : HealthCheckPaths,
                   timeoutMs : TimeoutValues]
    /\ derived = NoDerived
    /\ response = NoResponse
    /\ annotated = NoResponse
    /\ calls = NoCalls

endpointFrame ==
    <<strategy, endpoints, failoverStatuses, request, pc, idx, tried, lastError,
      bufferedBody, bodyReads, attempts, now, startTime, gatherTime, raceStart, winner,
      outcome, recoveryFn, context, hook, result, options, cf, matched, selected,
      origin, response, annotated, calls>>

\* endpoint.normalizedUrl
GetNormalizedUrl ==
    /\ pc = "endpoint"
    /\ "normalizedUrl" \notin derived.done
    /\ derived' = [derived EXCEPT !.done = @ \cup {"normalizedUrl"},
                                  !.normalizedUrl = normalizedUrl(origin.url)]
    /\ UNCHANGED endpointFrame

\* makeEndpoint(endpoint.normalizedUrl).normalizedUrl
GetRenormalizedUrl ==
    /\ pc = "endpoint"
    /\ "normalizedUrl" \in derived.done
    /\ "renormalizedUrl" \notin derived.done
    /\ derived' = [derived EXCEPT !.done = @ \cup {"renormalizedUrl"},
                                  !.renormalizedUrl = normalizedUrl(derived.normalizedUrl)]
    /\ UNCHANGED endpointFrame

\* endpoint.healthCheckUrl
GetHealthCheckUrl ==
    /\ pc = "endpoint"
    /\ "healthCheckUrl" \notin derived.done
    /\ derived' = [derived EXCEPT !.done = @ \cup {"healthCheckUrl"},
                                  !.healthCheckUrl = healthCheckUrl(origin)]
    /\ UNCHANGED endpointFrame

\* endpoint.buildTargetUrl(pathname, search)
CallBuildTargetUrl ==
    /\ pc = "endpoint"
    /\ "targetUrl" \notin derived.done
    /\ \E pathname \in Pathnames, search \in Searches :
        derived' = [derived EXCEPT !.done = @ \cup {"targetUrl"},
                                   !.pathname = pathname,
                                   !.search = search,
                                   !.targetUrl = buildTargetUrl(origin, pathname, search)]
    /\ UNCHANGED endpointFrame

\* getHealthCheckTimeout(endpoint)
CallGetHealthCheckTimeout ==
    /\ pc = "endpoint"
    /\ "healthCheckTimeout" \notin derived.done
    /\ derived' = [derived EXCEPT !.done = @ \cup {"healthCheckTimeout"},
                                  !.healthCheckTimeout = getHealthCheckTimeout(origin)]
    /\ UNCHANGED endpointFrame

NextEndpoint ==
    \/ GetNormalizedUrl
    \/ GetRenormalizedUrl
    \/ GetHealthCheckUrl
    \/ CallBuildTargetUrl
    \/ CallGetHealthCheckTimeout

SpecEndpoint == InitEndpoint /\ [][NextEndpoint]_vars

\* ------------------------------------- Headers.ts called on a Response
\* header names; a Headers object compares them without regard to case
HEADERS ==
    [ENDPOINT |-> "x-load-balancer-endpoint",
     LATENCY |-> "x-load-balancer-latency",
     GATHER_LATENCY |-> "x-load-balancer-endpoint-gather-latency",
     TRIED_COUNT |-> "x-load-balancer-tried-count",
     TRIED_ENDPOINTS |-> "x-load-balancer-tried-endpoints"]

\* String(n) of a natural number, as a sequence of digits
RECURSIVE String(_)
String(n) ==
    LET digits == <<"0", "1", "2", "3", "4", "5", "6", "7", "8", "9">>
    IN  IF n < 10 THEN <<digits[n + 1]>>
        ELSE String(n \div 10) \o <<digits[(n % 10) + 1]>>

\* triedEndpoints.map((ep) => ep.url).join(", ")
RECURSIVE JoinUrls(_)
JoinUrls(eps) ==
    IF eps = <<>> THEN <<>>
    ELSE IF Len(eps) = 1 THEN eps[1].url
    ELSE eps[1].url \o <<", ">> \o JoinUrls(Tail(eps))

\* headers.set(name, value)
HeadersSet(headers, name, value) ==
    [n \in (DOMAIN headers) \cup {name} |-> IF n = name THEN value ELSE headers[n]]

\* the value an origin gives a header of its response
OriginHeaderValue(name) ==
    IF name = "content-type" THEN <<"text/plain">>
    ELSE IF name = HEADERS.TRIED_COUNT THEN <<"3">>
    ELSE <<"https://upstream">>

\* the header names of an origin's response: none, ordinary ones, or those of a
\* response that already passed through a load balancer
OriginHeaderNames ==
    {{}, {"content-type"},
     {"content-type", HEADERS.ENDPOINT},
     {"content-type", HEADERS.TRIED_COUNT, HEADERS.TRIED_ENDPOINTS}}

Responses ==
    {[status |-> st.status, statusText |-> st.statusText,
      headers |-> [n \in names |-> OriginHeaderValue(n)]] :
        st \in {[status |-> 200, statusText |-> "OK"],
                [status |-> 200, statusText |-> ""],
                [status |-> 404, statusText |-> "Not Found"]},
        names \in OriginHeaderNames}

addLoadBalancerHeadersTo(resp, endpoint, triedEndpoints, start, gather, endTime) ==
    LET h0 == resp.headers
        h1 == HeadersSet(h0, HEADERS.ENDPOINT, endpoint.url)
        h2 == HeadersSet(h1, HEADERS.LATENCY, String(endTime - start))
        h3 == HeadersSet(h2, HEADERS.GATHER_LATENCY, String(gather - start))
        h4 == IF Len(triedEndpoints) > 1
              THEN HeadersSet(
                       HeadersSet(h3, HEADERS.TRIED_COUNT, String(Len(triedEndpoints))),
                       HEADERS.TRIED_ENDPOINTS, JoinUrls(triedEndpoints))
              ELSE h3
    IN  [status |-> resp.status, statusText |-> resp.statusText, headers |-> h4]

\* a Response, the serving endpoint, the tried list and the two timestamps are
\* about to be passed to addLoadBalancerHeaders
InitHeaders ==
    /\ strategy = "fail-forward"
    /\ endpoints = <<>>
    /\ failoverStatuses = DEFAULT_FAILOVER_STATUSES
    /\ request = [method |-> "get", hasBody |-> FALSE]
    /\ pc = "headers"
    /\ idx = 1
    /\ tried \in SeqsUpTo(Endpoints, MaxCandidates) \ {<<>>}
    /\ lastError = NoError
    /\ bufferedBody = "null"
    /\ bodyReads = 0
    /\ attempts = <<>>
    /\ startTime \in 0..MaxNow
    /\ gatherTime \in startTime..MaxNow
    /\ now \in gatherTime..MaxNow
    /\ raceStart = 0
    /\ winner = 0
    /\ outcome = NoOutcome
    /\ recoveryFn = FALSE
    /\ context = NoContext
    /\ hook = NoHook
    /\ result = NoOutcome
    /\ options = NoOptions
    /\ cf = NoCf
    /\ matched = FALSE
    /\ selected = <<>>
    /\ origin \in {[url |-> tried[Len(tried)].url, healthCheckPath |-> <<"/">>,
                    timeoutMs |-> 30000]}
    /\ derived = NoDerived
    /\ response \in Responses
    /\ annotated = NoResponse
    /\ calls = NoCalls

\* addLoadBalancerHeaders(response, endpoint, triedEndpoints, startTime, gatherTime)
CallAddLoadBalancerHeaders ==
    /\ pc = "headers"
    /\ annotated' = addLoadBalancerHeadersTo(response, origin, tried, startTime,
                                             gatherTime, now)
    /\ pc' = "annotated"
    /\ UNCHANGED <<strategy, endpoints, failoverStatuses, request, idx, tried, lastError,
                   bufferedBody, bodyReads, attempts, now, startTime, gatherTime,
                   raceStart, winner, outcome, recoveryFn, context, hook, result,
                   options, cf, matched, selected, origin, derived, response, calls>>

NextHeaders == CallAddLoadBalancerHeaders

SpecHeaders == InitHeaders /\ [][NextHeaders]_vars

\* ------------------------- LoadBalancer.handleRequest, several at a time
\* the requests in flight on one LoadBalancer
Requests == 1..NumRequests

\* the options of the LoadBalancer: geo steered, a flat list, nothing configured
ConcurrentOptions ==
    {[endpoints |-> <<[url |-> <<"https://us">>]>>,
      geoEndpoints |->
        [defined |-> TRUE,
         list |-> <<[url |-> <<"https://eu">>,
                     geo |-> [type |-> "continent", codes |-> {"EU"}]]>>],
      steering |-> [type |-> "geo", defaultEndpoints |-> <<[url |-> <<"https://us">>]>>],
      availability |-> NoAvailability],
     [NoOptions EXCEPT !.endpoints = <<[url |-> <<"https://us">>], [url |-> <<"https://eu">>]>>],
     NoOptions}

\* request.cf of the concurrent requests
ConcurrentCfs ==
    {[defined |-> TRUE, continent |-> a, country |-> "undefined",
      regionCode |-> "undefined", colo |-> "undefined"] : a \in {"NA", "EU"}}

\* handleRequest has not been called for this request
NoCall ==
    [pc |-> "idle", cf |-> NoCf, endpointsToTry |-> <<>>, failoverStatuses |-> {},
     idx |-> 1, tried |-> <<>>, lastError |-> NoError, attempts |-> <<>>,
     outcome |-> NoOutcome, context |-> NoContext]

\* one LoadBalancer, no request in flight
InitConcurrent ==
    /\ strategy = "fail-forward"
    /\ endpoints = <<>>
    /\ failoverStatuses = DEFAULT_FAILOVER_STATUSES
    /\ request = [method |-> "get", hasBody |-> FALSE]
    /\ pc = "concurrent"
    /\ idx = 1
    /\ tried = <<>>
    /\ lastError = NoError
    /\ bufferedBody = "null"
    /\ bodyReads = 0
    /\ attempts = <<>>
    /\ now = 0
    /\ startTime = 0
    /\ gatherTime = 0
    /\ raceStart = 0
    /\ winner = 0
    /\ outcome = NoOutcome
    /\ recoveryFn = FALSE
    /\ context = NoContext
    /\ hook = NoHook
    /\ result = NoOutcome
    /\ options \in ConcurrentOptions
    /\ cf = NoCf
    /\ matched = <<>>
    /\ selected = <<>>
    /\ origin = NoEndpoint
    /\ derived = NoDerived
    /\ response = NoResponse
    /\ annotated = NoResponse
    /\ calls = [r \in Requests |-> NoCall]

concurrentFrame ==
    <<strategy, endpoints, failoverStatuses, request, pc, idx, tried, lastError,
      bufferedBody, bodyReads, attempts, now, startTime, gatherTime, raceStart, winner,
      outcome, recoveryFn, context, hook, result, options, cf, matched, selected,
      origin, derived, response, annotated>>

\* mutant: the tried list is one array that every run pushes to
PushTriedShared(c, r, endpoint) ==
    [q \in DOMAIN c |-> [c[q] EXCEPT !.tried = PushTried(c[r].tried, endpoint)]]

\* const tried: Endpoint[] = [] inside Effect.gen, tried.push(endpoint): the
\* array belongs to the run
PushTriedOf(c, r, endpoint) ==
    [c EXCEPT ![r].tried = PushTried(@, endpoint)]

\* handleRequest(request): the candidate list, the availability method and the
\* recovery context of this invocation
ConcurrentHandleRequest(r) ==
    /\ pc = "concurrent"
    /\ calls[r].pc = "idle"
    /\ \E c \in ConcurrentCfs :
        LET endpointsToTry == getEndpointsToTry(options, c)
            availability == ResolveAvailability(options.availability)
        IN  calls' =
              [calls EXCEPT ![r] =
                IF Len(endpointsToTry) = 0
                THEN [NoCall EXCEPT !.pc = "returned",
                                    !.cf = c,
                                    !.outcome = NoHealthyEndpointsError(<<>>, NoError)]
                ELSE [NoCall EXCEPT !.pc = "loop",
                                    !.cf = c,
                                    !.endpointsToTry = endpointsToTry,
                                    !.failoverStatuses = Statuses(availability)]]
    /\ UNCHANGED concurrentFrame

\* head of failForward's loop in the run of request r; after the last candidate
\* the run fails and tapError copies the error into the recovery context
ConcurrentFailForwardNext(r) ==
    /\ pc = "concurrent"
    /\ calls[r].pc = "loop"
    /\ LET c == calls[r]
       IN  IF c.idx > Len(c.endpointsToTry)
           THEN LET error == NoHealthyEndpointsError(c.tried, c.lastError)
                IN  calls' = [calls EXCEPT
                                ![r].outcome = error,
                                ![r].context = [triedEndpoints |-> error.triedEndpoints,
                                                lastError |-> error.lastError],
                                ![r].pc = "returned"]
           ELSE calls' = [PushTriedOf(calls, r, c.endpointsToTry[c.idx]) EXCEPT
                                ![r].attempts = Append(@, Forward(c.idx)),
                                ![r].pc = "forwarding"]
    /\ UNCHANGED concurrentFrame

\* the forward of request r's current candidate settles
ConcurrentFailForwardSettled(r) ==
    /\ pc = "concurrent"
    /\ calls[r].pc = "forwarding"
    /\ \E res \in ForwardResults :
        LET c == calls[r]
            settled == [c.attempts EXCEPT ![Len(c.attempts)] =
                            [@ EXCEPT !.state = IF res.ok THEN "ok" ELSE "error",
                                      !.status = res.status]]
        IN  IF res.ok /\ ~ShouldFailover(res.status, c.failoverStatuses)
            THEN calls' = [calls EXCEPT
                             ![r].attempts = settled,
                             ![r].outcome =
                                addLoadBalancerHeaders(res.status, c.endpointsToTry[c.idx],
                                                       c.tried, startTime, gatherTime),
                             ![r].pc = "returned"]
            ELSE calls' = [calls EXCEPT
                             ![r].attempts = settled,
                             ![r].lastError = IF res.ok THEN BadStatusError(res.status)
                                              ELSE TransportError(c.idx),
                             ![r].idx = NextCandidate(c.idx),
                             ![r].pc = "loop"]
    /\ UNCHANGED concurrentFrame

\* the caller has taken the result; the next request may arrive
ConcurrentReturned(r) ==
    /\ pc = "concurrent"
    /\ calls[r].pc = "returned"
    /\ calls' = [calls EXCEPT ![r] = NoCall]
    /\ UNCHANGED concurrentFrame

NextConcurrent ==
    \E r \in Requests :
        \/ ConcurrentHandleRequest(r)
        \/ ConcurrentFailForwardNext(r)
        \/ ConcurrentFailForwardSettled(r)
        \/ ConcurrentReturned(r)

SpecConcurrent == InitConcurrent /\ [][NextConcurrent]_vars

\* ======================================================================
\* Properties
\* ======================================================================
Sequential == strategy \in {"fail-forward", "async-block"}

IsForward(k) == attempts[k].kind = "forward"

IsProbe(k) == attempts[k].kind = "probe"

Forwards == {k \in DOMAIN attempts : IsForward(k)}

Probes == {k \in DOMAIN attempts : IsProbe(k)}

Last == Len(attempts)

\* the attempt ended without a response the strategy accepts
FailedAttempt(k) ==
    \/ attempts[k].state \in {"error", "unhealthy"}
    \/ /\ strategy = "fail-forward"
       /\ attempts[k].state = "ok"
       /\ attempts[k].status \in failoverStatuses

\* the failure of attempt k as the strategies record it
FailureOf(k) ==
    CASE attempts[k].state = "error" -> TransportError(attempts[k].idx)
      [] attempts[k].state = "unhealthy" -> UnhealthyError(attempts[k].idx)
      [] attempts[k].state = "ok" -> BadStatusError(attempts[k].status)
      [] OTHER -> NoError

Exhausted == pc = "done" /\ outcome.type = "NoHealthyEndpointsError"

Responded == pc = "done" /\ outcome.type = "response"

\* C1: in failForward a candidate's response is returned to the caller if
\* and only if the forward succeeded and its status is not in the failover
\* set; a response with a failover status, or a transport error, is never
\* returned and the loop advances to the next candidate.
C1_ReturnedIffNotFailover ==
    strategy = "fail-forward" =>
        /\ \A k \in Forwards :
            (attempts[k].state = "ok" /\ attempts[k].status \notin failoverStatuses)
                => /\ k = Last
                   /\ Responded
                   /\ outcome.status = attempts[k].status
                   /\ outcome.headers.endpoint = endpoints[attempts[k].idx]
        /\ \A k \in Forwards :
            FailedAttempt(k)
                => IF k = Last
                   THEN /\ outcome.type # "response"
                        /\ idx = attempts[k].idx + 1
                        /\ pc \in {"loop", "done"}
                        /\ pc = "done" => idx > Len(endpoints)
                   ELSE attempts[k + 1].idx = attempts[k].idx + 1
        /\ outcome.type = "response"
                => /\ attempts # <<>>
                   /\ attempts[Last].state = "ok"
                   /\ attempts[Last].status \notin failoverStatuses

\* a 500 is returned as-is under the default set, after a 502 made the
\* first candidate fail over
C1_Witness ==
    /\ strategy = "fail-forward"
    /\ failoverStatuses = DEFAULT_FAILOVER_STATUSES
    /\ Len(attempts) = 2
    /\ attempts[1].state = "ok" /\ attempts[1].status = 502
    /\ Responded
    /\ outcome.status = 500

\* C2: in failForward and asyncBlock candidates are attempted strictly in
\* list order and one at a time: at most one probe or forward is in flight,
\* the attempt on candidate i+1 starts only after the attempt on candidate i
\* has ended in failure, and nothing is attempted after a response was
\* returned.
C2_InOrderOneAtATime ==
    Sequential =>
        /\ Cardinality(Pending) <= 1
        /\ \A k \in DOMAIN attempts : k < Last => attempts[k].state # "pending"
        /\ attempts # <<>> => attempts[1].idx = 1
        /\ \A k \in DOMAIN attempts :
            k < Last =>
                \/ /\ attempts[k + 1].idx = attempts[k].idx + 1
                   /\ FailedAttempt(k)
                \/ /\ attempts[k + 1].idx = attempts[k].idx
                   /\ strategy = "async-block"
                   /\ IsProbe(k) /\ attempts[k].state = "healthy"
                   /\ IsForward(k + 1)
        /\ \A k \in DOMAIN attempts : attempts[k].idx \in 1..Len(endpoints)
        /\ outcome.type = "response"
                => /\ Pending = {}
                   /\ IsForward(Last)
                   /\ attempts[Last].state = "ok"
                   /\ endpoints[attempts[Last].idx] = outcome.headers.endpoint

\* asyncBlock probes the second candidate after the first was probed
\* healthy, forwarded to and failed
C2_Witness ==
    /\ strategy = "async-block"
    /\ Len(attempts) = 3
    /\ attempts[2].kind = "forward" /\ attempts[2].state = "error"
    /\ attempts[3].kind = "probe" /\ attempts[3].idx = 2
    /\ attempts[3].state = "pending"

\* C3: when failForward or asyncBlock ends in NoHealthyEndpointsError on a
\* non-empty candidate list, the error's tried list is the whole candidate
\* list in order and its last error is the failure observed on the last
\* candidate.
C3_ExhaustionCarriesAllAndLast ==
    (Sequential /\ Exhausted /\ Len(endpoints) > 0) =>
        /\ outcome.triedEndpoints = endpoints
        /\ attempts # <<>>
        /\ attempts[Last].idx = Len(endpoints)
        /\ FailedAttempt(Last)
        /\ outcome.lastError = FailureOf(Last)

\* failForward exhausts two candidates, the last one on a failover status
C3_Witness ==
    /\ strategy = "fail-forward"
    /\ Exhausted
    /\ Len(endpoints) = 2
    /\ Len(attempts) = 2
    /\ attempts[1].state = "error"
    /\ outcome.lastError = BadStatusError(502)

\* C4: when failForward or asyncBlock succeeds on the candidate at position
\* i, the tried list given to addLoadBalancerHeaders is the first i
\* candidates in order, the served-by origin is its last element, and the
\* tried-count header is i when i > 1 and absent when i = 1.
C4_SuccessTriedPrefix ==
    (Sequential /\ Responded) =>
        LET i == attempts[Last].idx
        IN  /\ outcome.triedArg = SubSeq(endpoints, 1, i)
            /\ outcome.headers.endpoint = outcome.triedArg[i]
            /\ outcome.headers.endpoint = endpoints[i]
            /\ i > 1 => outcome.headers.hasTried /\ outcome.headers.triedCount = i
            /\ i = 1 => ~outcome.headers.hasTried

\* origin 1 answers 502, origin 2 answers 200: TriedCount = 2
C4_Witness ==
    /\ strategy = "fail-forward"
    /\ Responded
    /\ Len(attempts) = 2
    /\ attempts[1].status = 502
    /\ outcome.status = 200
    /\ outcome.headers.triedCount = 2
    /\ endpoints[1] # endpoints[2]

\* C5: in asyncBlock the request is forwarded to an origin only after that
\* origin's probe reported healthy in the same iteration; an origin whose
\* probe reported unhealthy is never forwarded to, and the loop moves on to
\* the next candidate.
C5_ForwardOnlyAfterHealthyProbe ==
    strategy = "async-block" =>
        /\ \A k \in Forwards :
            /\ k > 1
            /\ IsProbe(k - 1)
            /\ attempts[k - 1].idx = attempts[k].idx
            /\ attempts[k - 1].state = "healthy"
        /\ \A k \in Probes :
            attempts[k].state = "unhealthy"
                => IF k = Last
                   THEN /\ idx = attempts[k].idx + 1
                        /\ pc \in {"loop", "done"}
                   ELSE /\ IsProbe(k + 1)
                        /\ attempts[k + 1].idx = attempts[k].idx + 1

\* the first origin is unhealthy and skipped, the second is healthy and
\* receives the request
C5_Witness ==
    /\ strategy = "async-block"
    /\ Len(attempts) = 3
    /\ attempts[1].kind = "probe" /\ attempts[1].state = "unhealthy"
    /\ attempts[2].kind = "probe" /\ attempts[2].state = "healthy"
    /\ attempts[3].kind = "forward" /\ attempts[3].idx = 2

\* C6: in asyncBlock a forward that succeeds at the transport level ends
\* the run with its response whatever the HTTP status (502, 503, 504
\* included): no later candidate is probed or forwarded to.
C6_AsyncBlockReturnsAnyStatus ==
    strategy = "async-block" =>
        \A k \in Forwards :
            attempts[k].state = "ok"
                => /\ k = Last
                   /\ Responded
                   /\ outcome.status = attempts[k].status
                   /\ outcome.headers.endpoint = endpoints[attempts[k].idx]

\* a healthy first origin answers 502 and a second candidate is left untried
C6_Witness ==
    /\ strategy = "async-block"
    /\ Len(endpoints) = 2
    /\ Len(attempts) = 2
    /\ attempts[2].state = "ok"
    /\ attempts[2].status \in DEFAULT_FAILOVER_STATUSES
    /\ Responded

\* C7: in promiseAny the origin forwarded to is one whose probe reported
\* healthy, and it is the first such origin: no probe reported healthy
\* before it, and a probe that reports healthy while the race is on gets
\* the forward.
C7_ForwardToFirstHealthy ==
    strategy = "promise-any" =>
        /\ \A k \in Forwards :
            /\ winner \in 1..Len(endpoints)
            /\ attempts[k].idx = winner
            /\ IsProbe(winner)
            /\ attempts[winner].state = "healthy"
            /\ \A j \in Probes : j # winner => attempts[j].state # "healthy"
        /\ \A j \in Probes :
            attempts[j].state = "healthy"
                => \E k \in Forwards : attempts[k].idx = j

\* the second candidate's probe is healthy while the first is still
\* outstanding: the forward goes to the second
C7_Witness ==
    /\ strategy = "promise-any"
    /\ Len(endpoints) = 2
    /\ winner = 2
    /\ Len(attempts) = 3
    /\ attempts[1].state = "interrupted"
    /\ attempts[3].kind = "forward" /\ attempts[3].idx = 2

\* C8: in promiseAny a failing probe never ends the race: while no probe
\* has reported healthy and the ceiling has not been reached the race is
\* still on, NoHealthyEndpointsError without a forward is produced only at
\* the ceiling, and a probe that reports healthy after all others failed
\* wins.
C8_FailingProbeNeverEndsRace ==
    (strategy = "promise-any" /\ Probes # {}) =>
        /\ ((\A j \in Probes : attempts[j].state \in {"pending", "unhealthy"})
                /\ now - raceStart < RACE_TIMEOUT_SECONDS)
            => pc = "racing" /\ outcome = NoOutcome
        /\ (Exhausted /\ Forwards = {})
            => now - raceStart >= RACE_TIMEOUT_SECONDS
        /\ (\A j \in Probes : attempts[j].state = "unhealthy")
            => pc \in {"racing", "done"}
        /\ \A j \in Probes :
            (attempts[j].state = "healthy"
                /\ \A i \in Probes \ {j} : attempts[i].state = "unhealthy")
            => winner = j /\ Forwards # {}

\* the first probe failed, then the second reported healthy before the
\* ceiling and won
C8_Witness ==
    /\ strategy = "promise-any"
    /\ Len(endpoints) = 2
    /\ Len(attempts) = 3
    /\ attempts[1].state = "unhealthy"
    /\ attempts[2].state = "healthy"
    /\ winner = 2
    /\ gatherTime - raceStart < RACE_TIMEOUT_SECONDS
    /\ gatherTime - raceStart > 0
    /\ pc = "forwarding"

\* C9: in promiseAny with N >= 1 candidates, a race that ends without a
\* healthy probe fails with NoHealthyEndpointsError whose tried list is all
\* N candidates in order, whichever probes had answered, and no forward is
\* attempted.
C9_TimeoutReportsAllCandidates ==
    (strategy = "promise-any" /\ pc = "done" /\ winner = 0 /\ Len(endpoints) >= 1) =>
        /\ outcome.type = "NoHealthyEndpointsError"
        /\ outcome.triedEndpoints = endpoints
        /\ Len(outcome.triedEndpoints) = Len(endpoints)
        /\ Forwards = {}
        /\ \A j \in Probes : attempts[j].state # "healthy"

\* the ceiling is reached with one probe answered unhealthy and one silent
C9_Witness ==
    /\ strategy = "promise-any"
    /\ Exhausted
    /\ Len(endpoints) = 2
    /\ Len(attempts) = 2
    /\ attempts[1].state = "unhealthy"
    /\ attempts[2].state = "interrupted"
    /\ now - raceStart = RACE_TIMEOUT_SECONDS

\* C10: in promiseAny, when the forward to the race winner fails at the
\* transport level the run fails with NoHealthyEndpointsError whose tried
\* list is all candidates and whose last error is that transport failure.
C10_ForwardFailureReportsAll ==
    strategy = "promise-any" =>
        \A k \in Forwards :
            attempts[k].state = "error"
                => /\ Exhausted
                   /\ outcome.triedEndpoints = endpoints
                   /\ outcome.lastError = TransportError(winner)
                   /\ attempts[k].idx = winner

\* the second of two candidates wins the race and its forward fails
C10_Witness ==
    /\ strategy = "promise-any"
    /\ Len(endpoints) = 2
    /\ endpoints[1] # endpoints[2]
    /\ winner = 2
    /\ Len(attempts) = 3
    /\ attempts[3].kind = "forward" /\ attempts[3].state = "error"
    /\ Exhausted

\* the body read was started and failed
ReadFailed ==
    /\ bodyReads = 1
    /\ pc \notin {"start", "reading"}
    /\ bufferedBody = "null"

\* C11: promiseAny makes at most one forwarding attempt per run: the forward
\* starts only after the race has resolved with a winner, and when it fails
\* the run ends without a forward to any other origin.
C11_AtMostOneForward ==
    strategy = "promise-any" =>
        /\ Cardinality(Forwards) <= 1
        /\ \A k \in Forwards :
            /\ pc \in {"forwarding", "done"}
            /\ winner # 0
            /\ attempts[k].idx = winner
            /\ \A j \in Probes : attempts[j].state # "pending"
            /\ attempts[k].state = "error" => pc = "done" /\ k = Last

\* the winner's forward failed while the other origin's probe answered late
C11_Witness ==
    /\ strategy = "promise-any"
    /\ Len(endpoints) = 2
    /\ Len(attempts) = 3
    /\ attempts[3].state = "error"
    /\ attempts[2].state = "discarded"
    /\ Exhausted

\* C12: in promiseAny a probe still outstanding when a winner is found or
\* the ceiling is reached is abandoned: when its result arrives later, the
\* chosen origin, the tried list, the forward and the returned response or
\* error stay as they are.
C12_AbandonedProbeChangesNothing ==
    [][(\E i \in DOMAIN attempts :
            /\ attempts[i].kind = "probe"
            /\ attempts[i].state = "interrupted"
            /\ attempts'[i].state # "interrupted")
        => /\ winner' = winner
           /\ outcome' = outcome
           /\ tried' = tried
           /\ lastError' = lastError
           /\ pc' = pc
           /\ Len(attempts') = Len(attempts)
           /\ \A k \in Forwards : attempts'[k] = attempts[k]]_vars

\* a response was returned and a loser's probe answered afterwards
C12_Witness ==
    /\ strategy = "promise-any"
    /\ Len(endpoints) = 2
    /\ Len(attempts) = 3
    /\ winner = 1
    /\ attempts[2].state = "discarded"
    /\ Responded

\* C13: promiseAny called with an empty candidate list fails at once with
\* NoHealthyEndpointsError whose tried list is empty, without reading the
\* request body, launching a probe or forwarding.
C13_EmptyListFailsAtOnce ==
    (strategy = "promise-any" /\ Len(endpoints) = 0 /\ pc # "start") =>
        /\ pc = "done"
        /\ outcome = NoHealthyEndpointsError(<<>>, NoError)
        /\ bodyReads = 0
        /\ attempts = <<>>

\* a POST with a body and no candidates
C13_Witness ==
    /\ strategy = "promise-any"
    /\ Len(endpoints) = 0
    /\ request.method = "POST" /\ request.hasBody
    /\ Exhausted

\* C14: in every strategy the inbound body stream is read at most once
\* however many origins are tried, the read is over before the first
\* forward starts, and every forward of the run is given the same buffered
\* payload.
C14_BodyReadOnce ==
    /\ bodyReads <= 1
    /\ pc \in {"start", "reading"} => Forwards = {}
    /\ \A k \in Forwards : attempts[k].body = ForwardBody(request.method, bufferedBody)
    /\ \A j, k \in Forwards : attempts[j].body = attempts[k].body

\* a POST body is read once and sent to two origins in turn
C14_Witness ==
    /\ strategy = "fail-forward"
    /\ Cardinality(Forwards) = 2
    /\ bodyReads = 1
    /\ \A k \in Forwards : attempts[k].body = "payload"

\* C15: in every strategy a failed body read does not abort the run: the
\* run goes on with a null body, and it ends only after the candidates were
\* attempted as they are with a buffered body.
C15_ReadFailureDoesNotAbort ==
    ReadFailed =>
        /\ \A k \in Forwards : attempts[k].body = "null"
        /\ (pc = "done" /\ Len(endpoints) > 0) => attempts # <<>>
        /\ (Exhausted /\ Sequential)
            => \A i \in 1..Len(endpoints) : \E k \in DOMAIN attempts : attempts[k].idx = i
        /\ (Exhausted /\ strategy = "promise-any")
            => \A i \in 1..Len(endpoints) : IsProbe(i) /\ attempts[i].idx = i
        /\ outcome.type = "NoHealthyEndpointsError"
            => outcome.triedEndpoints = endpoints

\* after a failed read the request is still forwarded, and answered
C15_Witness ==
    /\ ReadFailed
    /\ Responded
    /\ strategy = "promise-any"
    /\ attempts[Last].body = "null"

BodylessSpellings ==
    {"GET", "get", "gEt", "HEAD", "head", "Head", "OPTIONS", "options", "OPTIONs"}

\* C17: for a request whose method is GET, HEAD or OPTIONS in any letter
\* case bufferRequestBody yields null without reading the stream and
\* forwardRequest sends no body even when a non-null buffer is passed; for
\* every other method forwardRequest sends exactly the buffer it was given.
C17_BodylessMethodsCarryNoBody ==
    /\ request.method \in BodylessSpellings
        => /\ bodyReads = 0
           /\ pc # "reading"
           /\ pc = "buffered" => bufferedBody = "null"
           /\ \A k \in Forwards : attempts[k].body = "null"
    /\ request.method \notin BodylessSpellings
        => /\ \A k \in Forwards : attempts[k].body = bufferedBody
           /\ (pc # "call" /\ request.hasBody) => bodyReads = 1

\* a lower-case get with a body is forwarded without one although a buffer
\* was passed
C17_Witness ==
    /\ request.method = "get"
    /\ request.hasBody
    /\ pc = "forwarded"
    /\ bufferedBody = "payload"
    /\ attempts[1].body = "null"

\* the strategy of this handleRequest call ended in a NoHealthyEndpointsError
StrategyExhausted == outcome.type = "NoHealthyEndpointsError"

\* C18: the Recovery Hook is invoked only after the chosen strategy has
\* ended in Exhaustion, never when the strategy returned a response, and at
\* most once per handle invocation.
C18_HookOnlyAfterExhaustionOnce ==
    /\ hook.calls <= 1
    /\ hook.calls = 1
        => /\ recoveryFn
           /\ StrategyExhausted
           /\ pc \in {"recovering", "returned"}
           /\ Pending = {}
           /\ hook.context.triedEndpoints = outcome.triedEndpoints
    /\ outcome.type = "response" => hook.calls = 0
    /\ pc \notin {"recovering", "returned"} => hook.calls = 0

\* the hook ran once, after a strategy that tried two endpoints was exhausted
C18_Witness ==
    /\ hook.calls = 1
    /\ StrategyExhausted
    /\ Len(outcome.triedEndpoints) = 2
    /\ Len(attempts) >= 2

\* C19: with a Recovery Hook configured, no Exhaustion surfaces to the
\* caller unless the hook ran and returned undefined; a hook that returns a
\* response is what handle returns on every total failure, for each strategy
\* and every candidate list, an empty one included.
C19_RecoveryResponseOnEveryFailure ==
    (recoveryFn /\ pc = "returned" /\ result.type = "NoHealthyEndpointsError")
        => hook.returned = "undefined"

\* C20: when the Recovery Hook returns undefined, handle fails with the
\* original Exhaustion unchanged (same tried list, same last error), and no
\* probe or forward is started after the hook ran.
C20_UndefinedRethrowsUnchanged ==
    [][ /\ hook'.returned = "undefined"
            => /\ pc' = "returned"
               /\ result' = outcome'
               /\ result'.triedEndpoints = hook'.context.triedEndpoints
               /\ result'.lastError = hook'.context.lastError
        /\ hook.calls >= 1
            => /\ Len(attempts') = Len(attempts)
               /\ \A k \in DOMAIN attempts :
                    attempts'[k].state = "pending" => attempts[k].state = "pending"
      ]_vars

\* the hook declined after both endpoints had been tried, and the error
\* with both endpoints and the last failure reached the caller
C20_Witness ==
    /\ pc = "returned"
    /\ hook.returned = "undefined"
    /\ result.type = "NoHealthyEndpointsError"
    /\ Len(result.triedEndpoints) = 2
    /\ result.lastError # NoError

\* C21: the context handed to the Recovery Hook is captured from the
\* Exhaustion before the hook runs: its tried list and last error are those
\* of the Exhaustion the strategy produced for this request.
C21_HookContextIsTheExhaustion ==
    hook.calls >= 1
        => /\ StrategyExhausted
           /\ hook.context = [triedEndpoints |-> outcome.triedEndpoints,
                              lastError |-> outcome.lastError]
           /\ hook.context = context

\* the hook received both tried endpoints and the failure of the last one
C21_Witness ==
    /\ hook.calls = 1
    /\ Len(hook.context.triedEndpoints) = 2
    /\ hook.context.lastError.kind = "RequestForwardError"
    /\ hook.context.lastError.idx = 2

\* C22: with an empty candidate list handle fails with an Exhaustion whose
\* tried list is empty, and no body read, probe or forward is performed.
C22_EmptyCandidatesFailUntouched ==
    (Len(endpoints) = 0 /\ pc # "handle")
        => /\ pc = "returned"
           /\ result.type = "NoHealthyEndpointsError"
           /\ result.triedEndpoints = <<>>
           /\ bodyReads = 0
           /\ attempts = <<>>

\* a POST with a body and no candidate has failed
C22_Witness ==
    /\ Len(endpoints) = 0
    /\ request.method = "POST"
    /\ request.hasBody
    /\ pc = "returned"
    /\ result.type = "NoHealthyEndpointsError"

\* the kinds of the underlying failures
FailureKinds ==
    {"RequestForwardError(body)", "RequestForwardError", "Error(status)",
     "EndpointUnhealthyError"}

\* C23: every run of a strategy, and every run of handle, ends in exactly
\* one of a response or an Exhaustion; an underlying failure is never the
\* outcome, it only appears as the last error inside an Exhaustion.
C23_OnlyResponseOrExhaustion ==
    /\ pc \in {"done", "recovering", "returned"} /\ Len(endpoints) > 0
        => outcome.type \in {"response", "NoHealthyEndpointsError"}
    /\ pc \notin {"done", "recovering", "returned"} => outcome = NoOutcome
    /\ pc = "returned"
        => result.type \in {"response", "recovery-response", "NoHealthyEndpointsError"}
    /\ pc # "returned" => result = NoOutcome
    /\ outcome.type \notin FailureKinds
    /\ result.type \notin FailureKinds
    /\ outcome.type = "response" => outcome.lastError = NoError

\* handle ended in an Exhaustion that carries a health-check failure
C23_Witness ==
    /\ pc = "returned"
    /\ result.type = "NoHealthyEndpointsError"
    /\ result.lastError.kind = "EndpointUnhealthyError"

\* C24: every Exhaustion raised by a strategy after at least one probe or
\* forward was attempted carries a defined last error, the last underlying
\* failure observed in that run.
C24_ExhaustionCarriesLastError ==
    (Exhausted /\ attempts # <<>>) => outcome.lastError # NoError

\* the inputs of selectGeoEndpoints in this request
GeoList == options.geoEndpoints.list

DefaultList == options.steering.defaultEndpoints

\* selectGeoEndpoints has been applied to the geo endpoints, request.cf and
\* the default endpoints
GeoSelected == pc = "selected" /\ GeoSteered(options)

\* positions of the geo endpoints whose own tag field is present and in
\* their set
MatchedIdx ==
    {i \in DOMAIN GeoList :
        LET own == CASE GeoList[i].geo.type = "continent" -> cf.continent
                     [] GeoList[i].geo.type = "country" -> cf.country
                     [] GeoList[i].geo.type = "region" -> cf.regionCode
                     [] GeoList[i].geo.type = "colo" -> cf.colo
        IN  cf.defined /\ own # "undefined" /\ own \in GeoList[i].geo.codes}

UrlsOf(seq) == {seq[i].url : i \in DOMAIN seq}

\* the first position of a url in a list
FirstIndex(seq, url) ==
    CHOOSE i \in DOMAIN seq :
        seq[i].url = url /\ \A j \in 1..(i - 1) : seq[j].url # url

\* C25: with tags present and at least one geo origin matching,
\* selectGeoEndpoints returns the matched geo origins in input order, then
\* the fallback origins not already present, then the remaining geo origins
\* in input order; every geo origin and every fallback origin appears, and
\* every matched origin precedes every non-matched one.
C25_MatchedThenFallbackThenRest ==
    (GeoSelected /\ MatchedIdx # {})
        => LET n == Cardinality(MatchedIdx)
               rest == (n + 1)..Len(selected)
               matchedUrls == {GeoList[i].url : i \in MatchedIdx}
           IN  /\ Len(selected) >= n
               /\ \A k \in 1..n :
                    \E i \in MatchedIdx :
                        /\ Cardinality({j \in MatchedIdx : j <= i}) = k
                        /\ selected[k] = toEndpoint(GeoList[i])
               /\ \A p \in rest :
                    /\ selected[p].url \notin {selected[q].url : q \in 1..(p - 1)}
                    /\ selected[p].url \in UrlsOf(DefaultList) \cup UrlsOf(GeoList)
               /\ \A p \in rest, q \in rest :
                    (p < q /\ selected[q].url \in UrlsOf(DefaultList))
                        => /\ selected[p].url \in UrlsOf(DefaultList)
                           /\ FirstIndex(DefaultList, selected[p].url)
                                < FirstIndex(DefaultList, selected[q].url)
               /\ \A p \in rest, q \in rest :
                    (p < q /\ selected[p].url \notin UrlsOf(DefaultList))
                        => FirstIndex(GeoList, selected[p].url)
                            < FirstIndex(GeoList, selected[q].url)
               /\ UrlsOf(GeoList) \cup UrlsOf(DefaultList) = UrlsOf(selected)
               /\ \A q \in rest : selected[q].url \notin matchedUrls

\* a matched origin, a fallback origin and a non-matched geo origin came
\* out in this order
C25_Witness ==
    /\ GeoSelected
    /\ Len(GeoList) = 2
    /\ MatchedIdx = {2}
    /\ Len(DefaultList) = 1
    /\ Len(selected) = 3
    /\ selected[1].url = GeoList[2].url
    /\ selected[2] = DefaultList[1]
    /\ selected[3].url = GeoList[1].url

\* C26: the candidate list produced for a request never contains two
\* origins with the same normalized URL, for every input of geo origins,
\* fallback origins and tags.
C26_NoDuplicateNormalizedUrl ==
    GeoSelected
        => \A p \in DOMAIN selected, q \in DOMAIN selected :
                p # q => normalizedUrl(selected[p].url) # normalizedUrl(selected[q].url)

\* C27: with tags absent, or present with no geo origin matching,
\* selectGeoEndpoints returns exactly the fallback list when it is
\* non-empty, and otherwise all geo origins projected to Origin in input
\* order; with a non-empty fallback no geo origin is added.
C27_NoMatchFallbackOrAll ==
    (GeoSelected /\ MatchedIdx = {})
        => IF Len(DefaultList) > 0
           THEN selected = DefaultList
           ELSE /\ Len(selected) = Len(GeoList)
                /\ \A i \in DOMAIN GeoList : selected[i] = [url |-> GeoList[i].url]

\* tags were present, no geo origin of two matched, and the one fallback
\* origin alone came out
C27_Witness ==
    /\ GeoSelected
    /\ cf.defined
    /\ Len(GeoList) = 2
    /\ MatchedIdx = {}
    /\ Len(DefaultList) = 1
    /\ selected = DefaultList
    /\ DefaultList[1].url \notin UrlsOf(GeoList)

\* the tag field of a rule's own dimension
OwnField(type, c) ==
    CASE type = "continent" -> c.continent
      [] type = "country" -> c.country
      [] type = "region" -> c.regionCode
      [] type = "colo" -> c.colo

\* C28: a geo origin matches request tags if and only if the tag field of
\* the rule's own dimension is present and is an exact, case-sensitive
\* member of the rule's set; fields of other dimensions never influence the
\* result, and an absent field never matches.
C28_MatchOnOwnDimensionOnly ==
    pc = "matched"
        => LET ge == GeoList[1]
               own == OwnField(ge.geo.type, cf)
           IN  /\ (matched = <<ge>>) <=> (own # "undefined" /\ own \in ge.geo.codes)
               /\ matched \in {<<>>, <<ge>>}
               /\ own \in {"undefined", "na"} => matched = <<>>

\* a continent rule for NA did not match a request from continent na,
\* although its country field is NA
C28_Witness ==
    /\ pc = "matched"
    /\ GeoList[1].geo = [type |-> "continent", codes |-> {"NA"}]
    /\ cf.continent = "na"
    /\ cf.country = "NA"
    /\ matched = <<>>

\* C29: when both a flat origin list and geo steering are configured, the
\* flat origins serve as fallback candidates: each of them is among the
\* candidates tried for the request.
C29_FlatOriginsAreFallback ==
    (GeoSelected /\ options.endpoints # <<>>)
        => UrlsOf(options.endpoints) \subseteq UrlsOf(selected)

\* no availability is configured, or fail-forward without failoverOnStatuses
DefaultAvailability ==
    \/ options.availability.type = "undefined"
    \/ options.availability.type = "fail-forward" /\ ~options.availability.hasStatuses

\* C30: with no availability configuration, and with a fail-forward
\* configuration that gives no failover status set, handle behaves as
\* failForward run with failover statuses {502, 503, 504}: the candidates are
\* forwarded to in order, one that answers with a status outside the set is
\* returned, and the Exhaustion carries all candidates.
C30_DefaultIsFailForward502To504 ==
    (DefaultAvailability /\ pc # "handle" /\ Len(endpoints) > 0)
        => /\ strategy = "fail-forward"
           /\ failoverStatuses = {502, 503, 504}
           /\ \A k \in DOMAIN attempts :
                /\ attempts[k].kind = "forward"
                /\ attempts[k].idx = k
                /\ k < Len(attempts)
                    => \/ attempts[k].state = "error"
                       \/ /\ attempts[k].state = "ok"
                          /\ attempts[k].status \in {502, 503, 504}
           /\ outcome.type = "response"
                => /\ attempts[Last].state = "ok"
                   /\ attempts[Last].status \notin {502, 503, 504}
                   /\ outcome.status = attempts[Last].status
                   /\ outcome.triedArg = SubSeq(endpoints, 1, Last)
                   /\ result \in {NoOutcome, outcome}
           /\ outcome.type = "NoHealthyEndpointsError"
                => /\ Len(attempts) = Len(endpoints)
                   /\ outcome.triedEndpoints = endpoints
                   /\ \/ attempts[Last].state = "error"
                      \/ attempts[Last].status \in {502, 503, 504}
           /\ (pc \in {"loop", "done", "recovering", "returned"} /\ attempts # <<>>
               /\ attempts[Last].state = "ok"
               /\ attempts[Last].status \notin {502, 503, 504})
                => outcome.type = "response"

\* a fail-forward configuration without statuses failed over on a 502 and
\* returned the 500 of the second candidate
C30_Witness ==
    /\ options.availability.type = "fail-forward"
    /\ ~options.availability.hasStatuses
    /\ pc = "returned"
    /\ Len(attempts) = 2
    /\ attempts[1].status = 502
    /\ result.type = "response"
    /\ result.status = 500

\* C36: in every strategy the gather timestamp of a response is taken when
\* selection and probing for the serving origin have concluded, immediately
\* before the winning forward begins; in asyncBlock it lies after the
\* serving origin's health probe has completed.
C36_GatherTimeTakenAsForwardBegins ==
    [][ (/\ Len(attempts') = Len(attempts) + 1
         /\ attempts'[Len(attempts')].kind = "forward")
            => gatherTime' = now' ]_vars

\* C40: a successful promiseAny response never carries the tried-count or
\* tried-endpoints headers, however many candidates were probed, because
\* only the winner is given to the annotator; the same run ending in
\* failure reports all candidates as tried.
C40_PromiseAnySuccessHasNoTriedHeaders ==
    strategy = "promise-any"
        => /\ Responded
                => /\ ~outcome.headers.hasTried
                   /\ outcome.headers.triedCount = 0
                   /\ outcome.headers.triedEndpoints = <<>>
                   /\ outcome.triedArg = <<endpoints[winner]>>
           /\ (Exhausted /\ attempts # <<>>) => outcome.triedEndpoints = endpoints

\* two candidates were probed, the second one won and served the request
C40_Witness ==
    /\ strategy = "promise-any"
    /\ Responded
    /\ Len(endpoints) = 2
    /\ Cardinality(Probes) = 2
    /\ winner = 2
    /\ ~outcome.headers.hasTried

C37_GeoSelectionOnlyWhenSteered ==
    pc = "selected"
        => IF options.steering.type = "geo" /\ options.geoEndpoints.defined
           THEN /\ UrlsOf(selected) \subseteq UrlsOf(GeoList) \cup UrlsOf(DefaultList)
                /\ MatchedIdx # {} => selected[1] = toEndpoint(GeoList[CHOOSE i \in MatchedIdx : \A j \in MatchedIdx : i <= j])
                /\ (MatchedIdx = {} /\ DefaultList # <<>>) => selected = DefaultList
                /\ (MatchedIdx = {} /\ DefaultList = <<>>) => Len(selected) = Len(GeoList)
           ELSE /\ selected = options.endpoints
                /\ matched = <<>>

\* a geo list was configured without the steering flag: the one flat origin
\* is the candidate list and the geo origin of another url is not in it
C37_Witness ==
    /\ pc = "selected"
    /\ options.steering.type = "undefined"
    /\ options.geoEndpoints.defined
    /\ Len(GeoList) = 1
    /\ Len(options.endpoints) = 1
    /\ GeoList[1].url # options.endpoints[1].url
    /\ selected = options.endpoints


EndsInSlash(url) == url # <<>> /\ url[Len(url)] = "/"

EndsInTwoSlashes(url) == Len(url) >= 2 /\ url[Len(url)] = "/" /\ url[Len(url) - 1] = "/"

C33_NormalizationRemovesOneSlash ==
    LET stripped == IF EndsInSlash(origin.url)
                    THEN SubSeq(origin.url, 1, Len(origin.url) - 1)
                    ELSE origin.url
    IN  /\ "normalizedUrl" \in derived.done =>
            /\ derived.normalizedUrl = stripped
            /\ EndsInTwoSlashes(origin.url) => EndsInSlash(derived.normalizedUrl)
        /\ "healthCheckUrl" \in derived.done =>
            /\ Len(derived.healthCheckUrl) = Len(stripped) + Len(origin.healthCheckPath)
            /\ SubSeq(derived.healthCheckUrl, 1, Len(stripped)) = stripped
            /\ SubSeq(derived.healthCheckUrl, Len(stripped) + 1,
                      Len(derived.healthCheckUrl)) = origin.healthCheckPath
        /\ "targetUrl" \in derived.done =>
            /\ Len(derived.targetUrl) =
                    Len(stripped) + Len(derived.pathname) + Len(derived.search)
            /\ SubSeq(derived.targetUrl, 1, Len(stripped)) = stripped
            /\ SubSeq(derived.targetUrl, Len(stripped) + 1,
                      Len(stripped) + Len(derived.pathname)) = derived.pathname
            /\ SubSeq(derived.targetUrl, Len(stripped) + Len(derived.pathname) + 1,
                      Len(derived.targetUrl)) = derived.search

C33_Witness ==
    /\ derived.done = {"normalizedUrl", "renormalizedUrl", "healthCheckUrl",
                       "targetUrl", "healthCheckTimeout"}
    /\ EndsInTwoSlashes(origin.url)
    /\ EndsInSlash(derived.normalizedUrl)
    /\ derived.search # <<>>
    /\ Len(derived.pathname) = 2

\* C34 (as stated): for every origin with timeoutMs > 0 the probe timeout is at
\* most half of the origin's timeoutMs, so it is never later than the forward's
C34_ProbeTimeoutAtMostHalf ==
    ("healthCheckTimeout" \in derived.done /\ origin.timeoutMs > 0) =>
        /\ 2 * derived.healthCheckTimeout <= origin.timeoutMs
        /\ derived.healthCheckTimeout <= origin.timeoutMs

\* C38: the probe timeout is max(1000, min(floor(timeoutMs / 2), 10000)), so it
\* lies in 1000..10000
C38_ProbeTimeoutFlooredAndCapped ==
    "healthCheckTimeout" \in derived.done =>
        LET t == origin.timeoutMs
            h == derived.healthCheckTimeout
        IN  /\ h \in 1000..10000
            /\ t < 2000 => h = 1000
            /\ t >= 20000 => h = 10000
            /\ (t >= 2000 /\ t < 20000) => (2 * h <= t /\ t < 2 * h + 2)

C38_Witness ==
    /\ "healthCheckTimeout" \in derived.done
    /\ origin.timeoutMs = 3001
    /\ derived.healthCheckTimeout = 1500

HasHeader(resp, name) == name \in DOMAIN resp.headers

OwnTried(c) == [k \in 1..Len(c.attempts) |-> c.endpointsToTry[c.attempts[k].idx]]

\* the failure of the latest of request r's own attempts that failed
OwnLastError(c) ==
    LET failed == {k \in DOMAIN c.attempts :
                      \/ c.attempts[k].state = "error"
                      \/ /\ c.attempts[k].state = "ok"
                         /\ c.attempts[k].status \in c.failoverStatuses}
    IN  IF failed = {} THEN NoError
        ELSE LET k == CHOOSE j \in failed : \A i \in failed : i <= j
             IN  IF c.attempts[k].state = "error"
                 THEN TransportError(c.attempts[k].idx)
                 ELSE BadStatusError(c.attempts[k].status)

OwnAttemptsOnly(c) ==
    /\ c.tried = OwnTried(c)
    /\ c.lastError = OwnLastError(c)
    /\ c.outcome.type = "response" =>
        /\ c.outcome.triedArg = OwnTried(c)
        /\ c.outcome.headers.endpoint = c.endpointsToTry[c.attempts[Len(c.attempts)].idx]
        /\ c.outcome.headers.triedEndpoints \in {<<>>, OwnTried(c)}
        /\ c.context = NoContext
    /\ c.outcome.type = "NoHealthyEndpointsError" =>
        /\ c.outcome.triedEndpoints = OwnTried(c)
        /\ c.outcome.lastError = OwnLastError(c)
        /\ c.context.triedEndpoints = OwnTried(c)
        /\ c.context.lastError = OwnLastError(c)

====
